---------------------------- MODULE Spec2Model ----------------------------
(***************************************************************************)
(* State-machine model of django-eavl-core (package datacore):             *)
(*   - the schema registry       (datacore/models/schemas.py)              *)
(*   - attributes and values     (datacore/models/attributes.py,           *)
(*                                eavl-core/models/values.py)              *)
(*   - entity operations, graph traversal and attribute migration          *)
(*                                (datacore/models/entity.py)              *)
(* Django ORM calls are modelled by what Django does with them: a unique   *)
(* field rejects a second row, Model.save(force_insert) of a row that has  *)
(* a primary key collides, Model.save(force_update) of a row without one   *)
(* raises, an auto_now_add column is stamped at insertion.                 *)
(* None is written 0 for keys and NoneV for JSON values.                   *)
(***************************************************************************)
EXTENDS Integers, Sequences, FiniteSets, TLC

VARIABLES
    schemas,    \* rows of SchemaModel
    links,      \* rows of the EntityClass.schemas many-to-many table: <<class, schema id>>
    nextSid,    \* next primary key of SchemaModel
    schema_cache, \* the lru_cache of SchemaModel.get_schema: <<pk, result>>
    attrs,      \* rows of the attribute model
    vals,       \* rows of the value model
    ents,       \* primary keys of the entity rows
    now,        \* the clock (datetime.now / timezone.now)
    nextVid,    \* next primary key of the value model
    writers,    \* concurrent callers: where each is in its call, and its locals
    last        \* the last call: its name, arguments and outcome

vars == <<schemas, links, nextSid, schema_cache, attrs, vals, ents, now, nextVid,
          writers, last>>
schemaVars == <<schemas, links, nextSid, schema_cache>>
storeVars == <<attrs, vals, ents, now, nextVid>>

(***************************************************************************)
(* Bounds of the model.                                                    *)
(***************************************************************************)
MaxSid == 2
MaxMinor == 1

(***************************************************************************)
(* Schema registry: datacore/models/schemas.py                             *)
(***************************************************************************)
\* MarshmallowField.registry codes used by the model (schemas.py:30-49).
FtBoolean == 2
FtDate == 4
FtFloat == 10
FtInt == 12
FtInteger == 13
FtString == 21
\* A code that is not in the registry.
FtUnknown == 99

\* MarshmallowField.get_field_name: the lower-cased class name of the
\* marshmallow field, None ("") for a code that is not registered.
\* mf.Int is an alias of mf.Integer, so both codes give "integer".
get_field_name(code) ==
    CASE code = FtBoolean -> "boolean"
      [] code = FtDate -> "date"
      [] code = FtFloat -> "float"
      [] code = FtInt -> "integer"
      [] code = FtInteger -> "integer"
      [] code = FtString -> "string"
      [] OTHER -> ""

Names == {"a", "b"}
Titles == {"A", "B"}
\* A version string "x.y" is the sequence of its dot-separated numbers.
Versions == {<<1, m>> : m \in 0..MaxMinor} \cup {<<2>>}
FieldTypes == {FtString, FtInteger, FtUnknown}
Classes == {"c1"}

\* An in-memory SchemaModel instance; pk = 0 is an unsaved one.
Instances ==
    [pk : 0..MaxSid, name : Names, title : Titles, version : Versions,
     field_type : FieldTypes, is_multiple : BOOLEAN]

SchemaIds == {r.id : r \in schemas}
SchemaRow(id) == CHOOSE r \in schemas : r.id = id

\* self.classes.exists() of a schema no class can be seen to link.
classes_exists_never(pk) == FALSE

\* self.classes.exists()
classes_exists(pk) == \E l \in links : l[2] = pk

\* SchemaModel.save, "Generate JSON Schema": the stored schema document.
schema_dict(inst) ==
    [type |-> get_field_name(inst.field_type), array |-> inst.is_multiple]

\* Model.validate_unique of full_clean(): name and title are unique=True and
\* (name, version) is unique_together; the instance's own row is excluded.
validate_unique(inst, rows) ==
    \A r \in rows :
        r.id # inst.pk =>
            /\ r.name # inst.name
            /\ r.title # inst.title
            /\ ~(r.name = inst.name /\ r.version = inst.version)

RowOf(inst, id) ==
    [id |-> id, name |-> inst.name, title |-> inst.title,
     version |-> inst.version, field_type |-> inst.field_type,
     is_multiple |-> inst.is_multiple, schema |-> schema_dict(inst)]

\* SchemaModel.get_next_version: the version is split at the dot into
\* exactly two integers (anything else raises ValueError), then the minor
\* number is raised until no row of that name holds the candidate.
RECURSIVE next_free(_, _, _, _)
next_free(name, major, minor, rows) ==
    IF \E r \in rows : r.name = name /\ r.version = <<major, minor + 1>>
    THEN next_free(name, major, minor + 1, rows)
    ELSE <<major, minor + 1>>

get_next_version(inst, rows) ==
    IF Len(inst.version) # 2
    THEN [err |-> "ValueError", version |-> <<>>]
    ELSE [err |-> "", version |->
            next_free(inst.name, inst.version[1], inst.version[2], rows)]

\* Outcome of the "Normal save" branch of SchemaModel.save: full_clean()
\* then Model.save (an INSERT for pk = 0, else an UPDATE of the row).
normal_save(inst, rows, sid) ==
    IF ~validate_unique(inst, rows)
    THEN [err |-> "ValidationError", rows |-> rows, sid |-> sid]
    ELSE IF inst.pk = 0
    THEN [err |-> "", rows |-> rows \cup {RowOf(inst, sid)}, sid |-> sid + 1]
    ELSE [err |-> "",
          rows |-> {r \in rows : r.id # inst.pk} \cup {RowOf(inst, inst.pk)},
          sid |-> sid]

\* django.db.models has no attribute model_to_dict (it lives in
\* django.forms.models): the lookup at schemas.py:190 raises AttributeError.
model_to_dict_defined == FALSE

\* SchemaModel.clone: model_to_dict(self, exclude=['id']), the next version,
\* then objects.create(**fields), which runs SchemaModel.save on the new
\* unsaved instance (pk None: the normal-save branch).
clone(inst, rows, sid) ==
    IF ~model_to_dict_defined
    THEN [err |-> "AttributeError", rows |-> rows, sid |-> sid]
    ELSE LET nv == get_next_version(inst, rows) IN
         IF nv.err # ""
         THEN [err |-> nv.err, rows |-> rows, sid |-> sid]
         ELSE normal_save([inst EXCEPT !.pk = 0, !.version = nv.version],
                          rows, sid)

\* SchemaModel.save.
save(inst, rows, sid) ==
    IF get_field_name(inst.field_type) = ""
    THEN [err |-> "ValueError", rows |-> rows, sid |-> sid]
    ELSE IF inst.pk # 0 /\ classes_exists(inst.pk)
    THEN clone(inst, rows, sid)
    ELSE normal_save(inst, rows, sid)

\* An instance the caller can hold: unsaved, or loaded from a row and edited.
Holdable(inst) == inst.pk = 0 \/ inst.pk \in SchemaIds

SchemaSave(inst) ==
    /\ Holdable(inst)
    /\ nextSid <= MaxSid
    /\ LET out == save(inst, schemas, nextSid) IN
        /\ schemas' = out.rows
        /\ nextSid' = out.sid
        /\ last' = [op |-> "save", pk |-> inst.pk, err |-> out.err]
    /\ UNCHANGED <<links, schema_cache, storeVars, writers>>

\* clone() of an instance as loaded from its row.
Loaded(pk) ==
    LET r == SchemaRow(pk) IN
    [pk |-> pk, name |-> r.name, title |-> r.title, version |-> r.version,
     field_type |-> r.field_type, is_multiple |-> r.is_multiple]

SchemaClone(pk) ==
    /\ pk \in SchemaIds
    /\ nextSid <= MaxSid
    /\ LET out == clone(Loaded(pk), schemas, nextSid) IN
        /\ schemas' = out.rows
        /\ nextSid' = out.sid
        /\ last' = [op |-> "clone", pk |-> pk, err |-> out.err]
    /\ UNCHANGED <<links, schema_cache, storeVars, writers>>

\* SchemaModel.delete: refused while an entity class links the schema;
\* Model.delete takes the attributes bound to the schema, and their values,
\* with the row (on_delete=CASCADE).
SchemaDelete(pk) ==
    /\ pk \in SchemaIds
    /\ IF classes_exists(pk)
       THEN /\ last' = [op |-> "delete", pk |-> pk, err |-> "ValidationError"]
            /\ UNCHANGED <<schemas, attrs, vals>>
       ELSE LET r == SchemaRow(pk)
                gone == {a \in attrs : a.schema = [name |-> r.name,
                            version |-> r.version, field_type |-> r.field_type]}
            IN
            /\ last' = [op |-> "delete", pk |-> pk, err |-> ""]
            /\ schemas' = {x \in schemas : x.id # pk}
            /\ attrs' = attrs \ gone
            /\ vals' = {v \in vals : v.attribute \notin {a.id : a \in gone}}
    /\ UNCHANGED <<links, nextSid, schema_cache, ents, now, nextVid, writers>>

\* EntityClass.schemas.add(schema) / .remove(schema): the many-to-many rows.
ClassLink(c, pk) ==
    /\ pk \in SchemaIds
    /\ <<c, pk>> \notin links
    /\ links' = links \cup {<<c, pk>>}
    /\ last' = [op |-> "link", pk |-> pk, err |-> ""]
    /\ UNCHANGED <<schemas, nextSid, schema_cache, storeVars, writers>>

ClassUnlink(c, pk) ==
    /\ <<c, pk>> \in links
    /\ links' = links \ {<<c, pk>>}
    /\ last' = [op |-> "unlink", pk |-> pk, err |-> ""]
    /\ UNCHANGED <<schemas, nextSid, schema_cache, storeVars, writers>>

StoreIdle ==
    /\ attrs = {}
    /\ vals = {}
    /\ ents = {}
    /\ now = 0
    /\ nextVid = 1

SchemaInit ==
    /\ schemas = {}
    /\ links = {}
    /\ nextSid = 1
    /\ schema_cache = {}
    /\ writers = <<>>
    /\ last = [op |-> "init", pk |-> 0, err |-> ""]
    /\ StoreIdle

SchemaNext ==
    \/ \E inst \in Instances : SchemaSave(inst)
    \/ \E pk \in 1..MaxSid : SchemaClone(pk)
    \/ \E pk \in 1..MaxSid : SchemaDelete(pk)
    \/ \E c \in Classes, pk \in 1..MaxSid : ClassLink(c, pk)
    \/ \E c \in Classes, pk \in 1..MaxSid : ClassUnlink(c, pk)

SchemaSpec == SchemaInit /\ [][SchemaNext]_vars

(***************************************************************************)
(* Claims about the schema registry.                                       *)
(***************************************************************************)
\* C1: saving a persisted schema that an entity class links never updates
\* the row in place: the save adds exactly one new row with the same name
\* and a new version, and the original row is kept as it was.
C1_LinkedSaveAddsVersion ==
    [][(last'.op = "save" /\ last'.pk \in SchemaIds
            /\ classes_exists(last'.pk)) =>
        LET orig == SchemaRow(last'.pk) IN
        /\ orig \in schemas'
        /\ \E r \in schemas' \ schemas :
            /\ schemas' = schemas \cup {r}
            /\ r.name = orig.name
            /\ r.version # orig.version]_vars

\* C2: clone(schema) persists one new row that copies every field of the
\* source but its identity, with version major.(minor+k) for the smallest
\* k >= 1 that is free for the name; the source row is unchanged.
C2_CloneAddsNextVersion ==
    [][(last'.op = "clone" /\ Len(SchemaRow(last'.pk).version) = 2) =>
        LET orig == SchemaRow(last'.pk) IN
        /\ orig \in schemas'
        /\ \E r \in schemas' \ schemas :
            /\ schemas' = schemas \cup {r}
            /\ r.id \notin SchemaIds
            /\ r = [orig EXCEPT !.id = r.id,
                        !.version = next_free(orig.name, orig.version[1],
                                              orig.version[2], schemas)]]_vars

\* C16: delete() of a schema that an entity class links fails with the
\* ValidationError of the conflict and leaves the schema rows and the
\* class-schema links unchanged; delete() of a schema no class links
\* removes its row.
C16_DeleteGuarded ==
    [][last'.op = "delete" =>
        IF \E l \in links : l[2] = last'.pk
        THEN /\ last'.err = "ValidationError"
             /\ schemas' = schemas
             /\ links' = links
        ELSE /\ last'.err = ""
             /\ schemas' = {r \in schemas : r.id # last'.pk}
             /\ links' = links]_vars

\* A refused delete of a linked schema.
C16_Witness ==
    /\ last.op = "delete"
    /\ last.err = "ValidationError"
    /\ last.pk \in SchemaIds
    /\ \E l \in links : l[2] = last.pk

(***************************************************************************)
(* JSON values.  A value is the sequence of its tokens, so that values of  *)
(* every shape are comparable:                                             *)
(*   scalar              <<Tok(type, text, number)>>                       *)
(*   {code: v}           <<Tok("key", code, 0)>> \o v                      *)
(*   {"value": v, "timestamp": t}   <<Tok("vt", "", t)>> \o v              *)
(*   [(v1, t1), ...]     <<Tok("list", "", n)>> \o v1 \o <<Tok("ts","",t1)>>*)
(***************************************************************************)
Tok(t, s, n) == [t |-> t, s |-> s, n |-> n]
NoneV == <<Tok("none", "", 0)>>
IntV(n) == <<Tok("int", "", n)>>
StrV(s) == <<Tok("str", s, 0)>>
BoolV(b) == <<Tok("bool", "", IF b THEN 1 ELSE 0)>>
KeyV(code, v) == <<Tok("key", code, 0)>> \o v
ValueTs(v, ts) == <<Tok("vt", "", ts)>> \o v

RECURSIVE ItemsJson(_)
ItemsJson(items) ==
    IF items = <<>> THEN <<>>
    ELSE Head(items).v \o <<Tok("ts", "", Head(items).ts)>>
         \o ItemsJson(Tail(items))
ListV(items) == <<Tok("list", "", Len(items))>> \o ItemsJson(items)

(***************************************************************************)
(* Attributes and values: datacore/models/attributes.py and               *)
(* eavl-core/models/values.py                                              *)
(***************************************************************************)
MaxVid == 2
MaxTime == 2
MaxBulk == 2
MaxJson == 4

AttrRow(id) == CHOOSE a \in attrs : a.id = id

\* A new attribute row.
Attr(id, entity, code, sch, ts, rel, dest) ==
    [id |-> id, entity |-> entity, code |-> code, schema |-> sch,
     is_multiple |-> FALSE, is_relation |-> rel, destination |-> dest,
     is_timeseries |-> ts, deleted |-> FALSE]

\* The schema an attribute is bound to, as far as the store reads it.
Sch(name, version, ft) == [name |-> name, version |-> version, field_type |-> ft]

\* QuerySet.first() of a queryset ordered by "-timestamp": a row of the
\* greatest timestamp, None (the empty set) without rows.  The order among
\* rows of equal timestamp is the database's.
Latest(rows) == {r \in rows : \A q \in rows : q.timestamp <= r.timestamp}

\* One of the rows first() can return; tb picks among equal timestamps.
First(rows, tb) ==
    LET top == Latest(rows) IN
    IF tb = "min" THEN CHOOSE r \in top : \A q \in top : r.id <= q.id
    ELSE CHOOSE r \in top : \A q \in top : r.id >= q.id

\* AbstractValueModel.save: force_insert for a time-series attribute,
\* force_update otherwise.  Model.save(force_update) of an object without a
\* primary key raises ValueError; Model.save(force_insert) of an object that
\* has one issues an INSERT with that key, which the table rejects
\* (IntegrityError); with update_fields a forced insert raises ValueError.
\* A new row is stamped by auto_now_add.  obj.id = 0 is an unsaved object.
value_save(obj, update_fields, all, rows, vid, tnow) ==
    LET a == CHOOSE x \in all : x.id = obj.attribute IN
    IF a.is_timeseries
    THEN IF update_fields
         THEN [err |-> "ValueError", rows |-> rows, vid |-> vid]
         ELSE IF obj.id # 0
         THEN [err |-> "IntegrityError", rows |-> rows, vid |-> vid]
         ELSE [err |-> "",
               rows |-> rows \cup {[obj EXCEPT !.id = vid, !.timestamp = tnow]},
               vid |-> vid + 1]
    ELSE IF obj.id = 0
         THEN [err |-> "ValueError", rows |-> rows, vid |-> vid]
         ELSE [err |-> "",
               rows |-> {r \in rows : r.id # obj.id} \cup {obj},
               vid |-> vid]

\* The entries of a bulk value that set_value keeps: "if ts and ts < now".
RECURSIVE bulk_objs(_, _)
bulk_objs(items, tnow) ==
    IF items = <<>> THEN <<>>
    ELSE LET it == Head(items) IN
         (IF it.ts # 0 /\ it.ts < tnow THEN <<it>> ELSE <<>>)
         \o bulk_objs(Tail(items), tnow)

\* bulk_create: one INSERT per object, each row stamped by auto_now_add
\* (Model.save is not called).
RECURSIVE bulk_create(_, _, _, _, _)
bulk_create(objs, a, rows, vid, tnow) ==
    IF objs = <<>> THEN [err |-> "", rows |-> rows, vid |-> vid]
    ELSE bulk_create(Tail(objs), a,
            rows \cup {[id |-> vid, entity |-> a.entity, attribute |-> a.id,
                        value |-> Head(objs).v, timestamp |-> tnow]},
            vid + 1, tnow)

\* The single-value branch of set_value: the newest value row of the ENTITY
\* (values_qs filters by entity only) is overwritten and saved, or a new
\* object is saved when the entity has no row.
set_single(a, value, all, rows, vid, tnow, tb) ==
    LET qs == {r \in rows : r.entity = a.entity} IN
    IF qs # {}
    THEN value_save([First(qs, tb) EXCEPT !.value = value], FALSE,
                    all, rows, vid, tnow)
    ELSE value_save([id |-> 0, entity |-> a.entity, attribute |-> a.id,
                     value |-> value, timestamp |-> 0], FALSE,
                    all, rows, vid, tnow)

\* AbstractAttributeModel.set_value with a list of (value, timestamp) pairs:
\* the bulk branch for a time-series attribute, which returns only when it
\* kept an entry; otherwise the list falls through to the single branch.
\* schema.get_defaults() is None: save() stores only type/items.
set_bulk(a, items, all, rows, vid, tnow, tb) ==
    LET objs == bulk_objs(items, tnow) IN
    IF a.is_timeseries /\ objs # <<>>
    THEN bulk_create(objs, a, rows, vid, tnow)
    ELSE set_single(a, ListV(items), all, rows, vid, tnow, tb)

\* get_value with the queryset ordered by "timestamp": the oldest row first.
get_value_oldest(a, rows, tb) ==
    LET qs == {r \in rows : r.attribute = a.id /\ r.entity = a.entity} IN
    IF qs = {} THEN KeyV(a.code, NoneV)
    ELSE LET row == CHOOSE r \in qs : \A q \in qs : r.timestamp <= q.timestamp IN
         IF a.is_timeseries
         THEN KeyV(a.code, ValueTs(row.value, row.timestamp))
         ELSE KeyV(a.code, row.value)

\* AbstractAttributeModel.get_value(last_only=True): the rows of the
\* attribute, newest first.
get_value(a, rows, tb) ==
    LET qs == {r \in rows : r.attribute = a.id /\ r.entity = a.entity} IN
    IF qs = {} THEN KeyV(a.code, NoneV)
    ELSE LET row == First(qs, tb) IN
         IF a.is_timeseries
         THEN KeyV(a.code, ValueTs(row.value, row.timestamp))
         ELSE KeyV(a.code, row.value)

\* The non-deleted attributes of an entity in queryset order (by key).
RECURSIVE SeqOf(_)
SeqOf(S) ==
    IF S = {} THEN <<>>
    ELSE LET m == CHOOSE x \in S : \A y \in S : x.id <= y.id IN
         <<m>> \o SeqOf(S \ {m})
attributes_live(e, all) == SeqOf({a \in all : a.entity = e /\ ~a.deleted})

\* AbstractEntityModel.get_data: data["attributes"][code] = attr.get_value(),
\* the document as a sequence of <<code, value>> fields.
RECURSIVE get_fields(_, _, _)
get_fields(as, rows, tb) ==
    IF as = <<>> THEN <<>>
    ELSE <<[code |-> Head(as).code, value |-> get_value(Head(as), rows, tb)]>>
         \o get_fields(Tail(as), rows, tb)
get_data(e, all, rows, tb) == get_fields(attributes_live(e, all), rows, tb)

\* AbstractEntityModel.validate: attr.get_schema() is the class that
\* marshmallow's Schema.from_dict builds, so schema.validate(value) is a call
\* of an instance method on the class and raises TypeError for the first
\* field that names a live attribute of the entity.
validate(e, fields, all) ==
    IF \E i \in 1..Len(fields) :
            \E a \in all : a.entity = e /\ ~a.deleted /\ a.code = fields[i].code
    THEN "TypeError" ELSE ""

\* The write loop of set_data: attr.set_value(value) field by field; an
\* exception ends the loop and keeps the rows written before it.
RECURSIVE apply_fields(_, _, _, _, _, _, _)
apply_fields(e, fields, all, rows, vid, tnow, tb) ==
    IF fields = <<>> THEN [err |-> "", rows |-> rows, vid |-> vid]
    ELSE LET f == Head(fields)
             live == {a \in all : a.entity = e /\ ~a.deleted /\ a.code = f.code}
         IN
         IF live = {}
         THEN apply_fields(e, Tail(fields), all, rows, vid, tnow, tb)
         ELSE LET a == CHOOSE x \in live : \A y \in live : x.id <= y.id
                  out == set_single(a, f.value, all, rows, vid, tnow, tb)
              IN
              IF out.err # "" THEN out
              ELSE apply_fields(e, Tail(fields), all, out.rows, out.vid, tnow, tb)

\* AbstractEntityModel.set_data.
set_data(e, fields, validating, all, rows, vid, tnow, tb) ==
    IF validating /\ validate(e, fields, all) # ""
    THEN [err |-> validate(e, fields, all), rows |-> rows, vid |-> vid]
    ELSE apply_fields(e, fields, all, rows, vid, tnow, tb)

TieBreaks == {"min", "max"}
InputValues == {IntV(1)}
\* A bulk entry's timestamp: past (None, 0, at the first instant), now, future.
BulkItems == [v : {IntV(2)}, ts : {now - 1, now, now + 1}]
BulkLists == UNION {[1..n -> BulkItems] : n \in 1..MaxBulk}

JsonFits(rows) == \A r \in rows : Len(r.value) <= MaxJson

Tick ==
    /\ now < MaxTime
    /\ now' = now + 1
    /\ last' = [op |-> "tick", attr |-> 0, err |-> "", res |-> <<>>]
    /\ UNCHANGED <<attrs, vals, ents, nextVid, schemaVars, writers>>

SetValue(aid, v, tb) ==
    /\ aid \in {a.id : a \in attrs}
    /\ nextVid <= MaxVid
    /\ LET out == set_single(AttrRow(aid), v, attrs, vals, nextVid, now, tb) IN
        /\ vals' = out.rows
        /\ nextVid' = out.vid
        /\ last' = [op |-> "set_value", attr |-> aid, err |-> out.err, res |-> <<>>]
    /\ UNCHANGED <<attrs, ents, now, schemaVars, writers>>

SetValueBulk(aid, items, tb) ==
    /\ aid \in {a.id : a \in attrs}
    /\ nextVid + Len(items) <= MaxVid + 1
    /\ LET out == set_bulk(AttrRow(aid), items, attrs, vals, nextVid, now, tb) IN
        /\ JsonFits(out.rows)
        /\ vals' = out.rows
        /\ nextVid' = out.vid
        /\ last' = [op |-> "set_bulk", attr |-> aid, err |-> out.err, res |-> <<>>]
    /\ UNCHANGED <<attrs, ents, now, schemaVars, writers>>

\* get_value(last_only=True) of one attribute.
GetValue(aid, tb) ==
    /\ aid \in {a.id : a \in attrs}
    /\ last' = [op |-> "get_value", attr |-> aid, err |-> "",
                res |-> get_value(AttrRow(aid), vals, tb)]
    /\ UNCHANGED <<storeVars, schemaVars, writers>>

\* set_data(get_data()) of one entity.
SetDataOfGetData(e, validating, tb) ==
    /\ e \in ents
    /\ nextVid <= MaxVid
    /\ LET out == set_data(e, get_data(e, attrs, vals, tb), validating,
                           attrs, vals, nextVid, now, tb) IN
        /\ JsonFits(out.rows)
        /\ vals' = out.rows
        /\ nextVid' = out.vid
        /\ last' = [op |-> IF validating THEN "round_trip" ELSE "round_trip_raw",
                    attr |-> e, err |-> out.err, res |-> <<>>]
    /\ UNCHANGED <<attrs, ents, now, schemaVars, writers>>

\* AbstractAttributeModel.save of an attribute whose is_timeseries flag was
\* edited: refused for a relation without destination.
AttrSave(aid, ts) ==
    /\ aid \in {a.id : a \in attrs}
    /\ LET a == AttrRow(aid) IN
        IF a.is_relation /\ a.destination = 0
        THEN /\ last' = [op |-> "attr_save", attr |-> aid,
                         err |-> "AttributeError", res |-> <<>>]
             /\ UNCHANGED attrs
        ELSE /\ last' = [op |-> "attr_save", attr |-> aid, err |-> "", res |-> <<>>]
             /\ attrs' = (attrs \ {a}) \cup {[a EXCEPT !.is_timeseries = ts]}
    /\ UNCHANGED <<vals, ents, now, nextVid, schemaVars, writers>>

SchemaIdle ==
    /\ schemas = {}
    /\ links = {}
    /\ nextSid = 1
    /\ schema_cache = {}
    /\ writers = <<>>

ValuesInit ==
    /\ SchemaIdle
    /\ ents = {1}
    /\ attrs = {Attr(1, 1, "p", Sch("p", <<1, 0>>, FtInteger), TRUE, FALSE, 0),
                Attr(2, 1, "q", Sch("q", <<1, 0>>, FtInteger), FALSE, FALSE, 0)}
    /\ vals = {}
    /\ now = 1
    /\ nextVid = 1
    /\ last = [op |-> "init", attr |-> 0, err |-> "", res |-> <<>>]

ValuesNext ==
    \/ Tick
    \/ \E aid \in 1..2, v \in InputValues, tb \in TieBreaks : SetValue(aid, v, tb)
    \/ \E aid \in 1..2, items \in BulkLists, tb \in TieBreaks :
            SetValueBulk(aid, items, tb)
    \/ \E aid \in 1..2, tb \in TieBreaks : GetValue(aid, tb)
    \/ \E e \in {1}, validating \in BOOLEAN, tb \in TieBreaks :
            SetDataOfGetData(e, validating, tb)
    \/ \E aid \in 1..2, ts \in BOOLEAN : AttrSave(aid, ts)

ValuesSpec == ValuesInit /\ [][ValuesNext]_vars

(***************************************************************************)
(* Claims about attribute values.                                          *)
(***************************************************************************)
ValueIds == {r.id : r \in vals}
RowsOf(aid) == {r \in vals : r.attribute = aid}

C5_LastIsNewest ==
    (last.op = "get_value" /\ AttrRow(last.attr).is_timeseries) =>
        LET a == AttrRow(last.attr)
            qs == {r \in RowsOf(a.id) : r.timestamp <= now}
        IN
        IF RowsOf(a.id) = {} THEN last.res = KeyV(a.code, NoneV)
        ELSE \E r \in qs :
                /\ \A q \in qs : q.timestamp <= r.timestamp
                /\ last.res = KeyV(a.code, ValueTs(r.value, r.timestamp))

\* A time-series attribute read after a single write and a later bulk write.
C5_Witness ==
    /\ last.op = "get_value"
    /\ AttrRow(last.attr).is_timeseries
    /\ \E r, q \in RowsOf(last.attr) :
        /\ r.timestamp < q.timestamp
        /\ r.value = IntV(1)
        /\ q.value = IntV(2)
        /\ last.res = KeyV(AttrRow(last.attr).code, ValueTs(q.value, q.timestamp))

(***************************************************************************)
(* The relation graph: entities linked by relation attributes.             *)
(***************************************************************************)
MaxEnt == 5
MaxDepth == 3

\* Codes of the relation attributes an entity can own; (entity, code) is
\* unique, so an entity has at most one link of each code.
LinkCodes == {"m", "n"}

\* The destinations drawn for a link of entity e: a neighbour for "m", the
\* entity two further for "n".
LinkDest(e, code) ==
    (IF code = "m" THEN {e + 1, e - 1} ELSE {e + 2}) \cap (1..MaxEnt)

\* The key of the link (e, code); attributes are iterated in key order.
LinkId(e, code) == 2 * e - (IF code = "m" THEN 1 ELSE 0)

LinkChoices ==
    {<<e, c, d>> : e \in 1..MaxEnt, c \in LinkCodes, d \in 1..MaxEnt}

\* The relation-attribute tables drawn as inputs.
Graphs ==
    {{Attr(LinkId(l[1], l[2]), l[1], l[2], Sch(l[2], <<1, 0>>, FtString),
           FALSE, TRUE, l[3]) : l \in ls} :
        ls \in {s \in SUBSET {l \in LinkChoices : l[3] \in LinkDest(l[1], l[2])} :
                    \A x, y \in s : (x[1] = y[1] /\ x[2] = y[2]) => x = y}}

\* current.attributes.filter(is_relation=True), in queryset order.
relation_attributes(e, all) == SeqOf({a \in all : a.entity = e /\ a.is_relation})

\* The loop over the relation attributes of is_connected_to: the stack items
\* pushed for the destinations not yet visited.
RECURSIVE push_links(_, _, _)
push_links(rel, visited, depth) ==
    IF rel = <<>> THEN <<>>
    ELSE LET dest == Head(rel).destination IN
         (IF dest # 0 /\ dest \notin visited THEN <<<<dest, depth + 1>>>> ELSE <<>>)
            \o push_links(Tail(rel), visited, depth)

\* The while loop of is_connected_to over the stack of (entity, depth).
RECURSIVE is_connected_loop(_, _, _, _, _)
is_connected_loop(stack, visited, target, max_depth, all) ==
    IF stack = <<>> THEN FALSE
    ELSE LET current == stack[Len(stack)][1]
             depth == stack[Len(stack)][2]
             rest == SubSeq(stack, 1, Len(stack) - 1)
         IN
         IF current = target THEN TRUE
         ELSE IF current \in visited \/ depth >= max_depth
         THEN is_connected_loop(rest, visited, target, max_depth, all)
         ELSE is_connected_loop(
                rest \o push_links(relation_attributes(current, all),
                                   visited \cup {current}, depth),
                visited \cup {current}, target, max_depth, all)

\* AbstractEntityModel.is_connected_to(self, target, max_depth).
is_connected_to(self, target, max_depth, all) ==
    is_connected_loop(<<<<self, 0>>>>, {}, target, max_depth, all)

\* The loop over rel_attrs of find_link_path_to: the (entity, path) items
\* pushed for the destinations not yet visited.
RECURSIVE push_paths(_, _, _)
push_paths(rel, visited, path) ==
    IF rel = <<>> THEN <<>>
    ELSE LET dest == Head(rel).destination IN
         (IF dest # 0 /\ dest \notin visited
          THEN <<<<dest, Append(path, dest)>>>> ELSE <<>>)
            \o push_paths(Tail(rel), visited, path)

\* The while loop of find_link_path_to; none is TRUE when it returns None.
RECURSIVE find_link_loop(_, _, _, _, _, _, _)
find_link_loop(stack, visited, paths, target, mode, max_depth, all) ==
    IF stack = <<>>
    THEN IF mode = "all" THEN [none |-> FALSE, paths |-> paths]
         ELSE [none |-> TRUE, paths |-> <<>>]
    ELSE LET current == stack[Len(stack)][1]
             path == stack[Len(stack)][2]
             rest == SubSeq(stack, 1, Len(stack) - 1)
         IN
         IF current = target
         THEN IF mode = "first" THEN [none |-> FALSE, paths |-> <<path>>]
              ELSE find_link_loop(rest, visited, Append(paths, path),
                                  target, mode, max_depth, all)
         ELSE IF current \in visited \/ Len(path) > max_depth
         THEN find_link_loop(rest, visited, paths, target, mode, max_depth, all)
         ELSE find_link_loop(
                rest \o push_paths(relation_attributes(current, all),
                                   visited \cup {current}, path),
                visited \cup {current}, paths, target, mode, max_depth, all)

\* AbstractEntityModel.find_link_path_to(self, target, mode, max_depth),
\* without type or code filters.
find_link_path_to(self, target, mode, max_depth, all) ==
    find_link_loop(<<<<self, <<self>>>>>>, {}, <<>>, target, mode, max_depth, all)

Modes == {"first", "all"}

\* e.is_connected_to(target, max_depth=d) for the call drawn in last.
IsConnectedTo ==
    /\ last' = [last EXCEPT
                    !.op = "is_connected_to",
                    !.mode = "",
                    !.none = FALSE,
                    !.paths = <<>>,
                    !.conn = is_connected_to(last.self, last.target,
                                             last.max_depth, attrs)]
    /\ UNCHANGED <<storeVars, schemaVars, writers>>

\* e.find_link_path_to(target, mode=mode, max_depth=d) for the call drawn in
\* last.
FindLinkPathTo(mode) ==
    LET res == find_link_path_to(last.self, last.target, mode,
                                 last.max_depth, attrs) IN
    /\ last' = [last EXCEPT
                    !.op = "find_link_path_to",
                    !.mode = mode,
                    !.conn = FALSE,
                    !.none = res.none,
                    !.paths = res.paths]
    /\ UNCHANGED <<storeVars, schemaVars, writers>>

GraphInit ==
    /\ SchemaIdle
    /\ ents = 1..MaxEnt
    /\ attrs \in Graphs
    /\ vals = {}
    /\ now = 0
    /\ nextVid = 1
    /\ \E s \in 1..MaxEnt, t \in 1..MaxEnt, d \in 1..MaxDepth :
        last = [op |-> "init", self |-> s, target |-> t, max_depth |-> d,
                mode |-> "", conn |-> FALSE, none |-> FALSE, paths |-> <<>>]

GraphNext ==
    \/ IsConnectedTo
    \/ \E mode \in Modes : FindLinkPathTo(mode)

GraphSpec == GraphInit /\ [][GraphNext]_vars

(***************************************************************************)
(* Claims about the relation graph.                                        *)
(***************************************************************************)
\* The relation graph has a path of at most d edges from a to b.
RECURSIVE PathWithin(_, _, _)
PathWithin(a, b, d) ==
    \/ a = b
    \/ /\ d > 0
       /\ \E l \in attrs :
            /\ l.entity = a /\ l.is_relation /\ ~l.deleted /\ l.destination # 0
            /\ PathWithin(l.destination, b, d - 1)

\* C6: is_connected_to(a, b, max_depth=d) is true if and only if the
\* relation graph has a path from a to b of at most d edges.
C6_ConnectedIffPathWithin ==
    (last.op = "is_connected_to" /\ \A l \in attrs : ~l.deleted) =>
        (last.conn <=> PathWithin(last.self, last.target, last.max_depth))

\* C7: every path returned by find_link_path_to with mode "all" has at most
\* max_depth nodes and no node twice.
C7_PathsBounded ==
    (last.op = "find_link_path_to" /\ last.mode = "all") =>
        \A i \in 1..Len(last.paths) :
            LET p == last.paths[i] IN
            /\ Len(p) <= last.max_depth
            /\ \A j, k \in 1..Len(p) : p[j] = p[k] => j = k

(***************************************************************************)
(* Migration of one attribute: AbstractEntityModel.update_attribute        *)
(***************************************************************************)
FloatV(n) == <<Tok("float", "", n)>>

\* The decimal strings the conversions read and write.
IntLiterals == [s \in {"0", "1", "42"} |->
                    CASE s = "0" -> 0 [] s = "1" -> 1 [] OTHER -> 42]
FloatLiterals == [s \in {"0.0", "1.0", "42.0"} |->
                    CASE s = "0.0" -> 0 [] s = "1.0" -> 1 [] OTHER -> 42]

\* str.lower() of the strings in use.
lower(s) == CASE s = "True" -> "true" [] s = "False" -> "false" [] OTHER -> s

\* Python's int(value): ValueError for a string that is no integer literal,
\* TypeError for a list or dict; both are caught and give None.
py_int(value) ==
    IF Len(value) # 1 THEN NoneV
    ELSE LET tok == value[1] IN
         CASE tok.t = "int" -> value
           [] tok.t = "bool" -> IntV(tok.n)
           [] tok.t = "float" -> IntV(tok.n)
           [] tok.t = "str" ->
                IF tok.s \in DOMAIN IntLiterals THEN IntV(IntLiterals[tok.s])
                ELSE NoneV
           [] OTHER -> NoneV

\* Python's float(value).
py_float(value) ==
    IF Len(value) # 1 THEN NoneV
    ELSE LET tok == value[1] IN
         CASE tok.t = "int" -> FloatV(tok.n)
           [] tok.t = "bool" -> FloatV(tok.n)
           [] tok.t = "float" -> value
           [] tok.t = "str" ->
                IF tok.s \in DOMAIN IntLiterals THEN FloatV(IntLiterals[tok.s])
                ELSE IF tok.s \in DOMAIN FloatLiterals
                THEN FloatV(FloatLiterals[tok.s])
                ELSE NoneV
           [] OTHER -> NoneV

\* Python's str(value); the repr of a list or dict is one opaque string.
py_str(value) ==
    IF Len(value) # 1 THEN StrV("repr")
    ELSE LET tok == value[1] IN
         CASE tok.t = "int" ->
                StrV(CHOOSE s \in DOMAIN IntLiterals : IntLiterals[s] = tok.n)
           [] tok.t = "float" ->
                StrV(CHOOSE s \in DOMAIN FloatLiterals : FloatLiterals[s] = tok.n)
           [] tok.t = "bool" -> StrV(IF tok.n = 1 THEN "True" ELSE "False")
           [] OTHER -> value

\* The boolean branch: a string is true when its lower case is "1", "true"
\* or "yes"; anything else goes through bool().
py_boolean(value) ==
    IF Len(value) # 1 THEN BoolV(TRUE)
    ELSE LET tok == value[1] IN
         CASE tok.t = "str" -> BoolV(lower(tok.s) \in {"1", "true", "yes"})
           [] tok.t = "int" -> BoolV(tok.n # 0)
           [] tok.t = "float" -> BoolV(tok.n # 0)
           [] OTHER -> value

\* AbstractEntityModel._convert_value.
_convert_value(value, field_type) ==
    LET type_name == get_field_name(field_type) IN
    IF value = NoneV THEN NoneV
    ELSE CASE type_name \in {"int", "integer"} -> py_int(value)
           [] type_name = "float" -> py_float(value)
           [] type_name = "string" -> py_str(value)
           [] type_name = "boolean" -> py_boolean(value)
           [] OTHER -> value

\* The loop of update_attribute over attribute.values.all(): each row is
\* converted and saved with update_fields=["value"]; a save that raises ends
\* the loop with the rows saved so far.
RECURSIVE convert_values(_, _, _, _)
convert_values(todo, field_type, all, rows) ==
    IF todo = <<>> THEN [err |-> "", rows |-> rows]
    ELSE LET obj == [Head(todo) EXCEPT
                        !.value = _convert_value(Head(todo).value, field_type)]
             out == value_save(obj, TRUE, all, rows, 0, 0)
         IN
         IF out.err # "" THEN [err |-> out.err, rows |-> rows]
         ELSE convert_values(Tail(todo), field_type, all, out.rows)

\* AbstractEntityModel.update_attribute(schema).  schema.schema is the dict
\* save() generated ({"type": <field name>}), never of type "link", so the
\* attribute stops being a relation; the schemas drawn are not multiple.
update_attribute(e, schema, all, rows) ==
    LET found == {a \in all : a.entity = e /\ a.code = schema.name /\ ~a.deleted} IN
    IF found = {} THEN [err |-> "", attrs |-> all, rows |-> rows]
    ELSE LET attribute == CHOOSE a \in found : TRUE
             old_schema == attribute.schema
             out == IF old_schema.field_type # schema.field_type
                    THEN convert_values(
                            SeqOf({r \in rows : r.attribute = attribute.id}),
                            schema.field_type, all, rows)
                    ELSE [err |-> "", rows |-> rows]
         IN
         IF out.err # "" THEN [err |-> out.err, attrs |-> all, rows |-> out.rows]
         ELSE [err |-> "",
               attrs |-> (all \ {attribute}) \cup
                    {[attribute EXCEPT !.schema = schema, !.is_multiple = FALSE,
                                       !.is_relation = FALSE]},
               rows |-> out.rows]

\* The values written before a migration and the schemas migrated to.
MigrateValues == {StrV("42"), StrV("abc")}
MigrateLists == UNION {[1..n -> [v : MigrateValues, ts : {now - 1}]] : n \in 1..MaxBulk}
MigrateTypes == {FtString, FtInteger, FtBoolean, FtDate}
MigrateSchemas == {Sch(n, <<1, 1>>, ft) : n \in {"p", "q"}, ft \in MigrateTypes}

\* entity.update_attribute(schema)
UpdateAttribute(e, schema) ==
    /\ e \in ents
    /\ LET out == update_attribute(e, schema, attrs, vals) IN
        /\ attrs' = out.attrs
        /\ vals' = out.rows
        /\ last' = [op |-> "update_attribute", attr |-> e, err |-> out.err,
                    res |-> <<>>, schema |-> schema]
    /\ UNCHANGED <<ents, now, nextVid, schemaVars, writers>>

MigrateInit ==
    /\ SchemaIdle
    /\ ents = {1}
    /\ attrs = {Attr(1, 1, "p", Sch("p", <<1, 0>>, FtString), TRUE, FALSE, 0)}
    /\ vals = {}
    /\ now = 2
    /\ nextVid = 1
    /\ last = [op |-> "init", attr |-> 0, err |-> "", res |-> <<>>]

MigrateNext ==
    \/ \E v \in MigrateValues, tb \in TieBreaks : SetValue(1, v, tb)
    \/ \E items \in MigrateLists, tb \in TieBreaks : SetValueBulk(1, items, tb)
    \/ \E ts \in BOOLEAN : AttrSave(1, ts)
    \/ \E schema \in MigrateSchemas : UpdateAttribute(1, schema)

MigrateSpec == MigrateInit /\ [][MigrateNext]_vars

(***************************************************************************)
(* Claims about migration.                                                 *)
(***************************************************************************)
\* C8: update_attribute of an entity that has a live attribute of the
\* schema's name never raises, rebinds the attribute to the new schema and,
\* when the field type changed, replaces every stored value of the
\* attribute by its conversion to the new type (None when it cannot be
\* converted).
C8_UpdateRebindsAndConverts ==
    [][(/\ last'.op = "update_attribute"
        /\ \E a \in attrs : a.entity = last'.attr /\ a.code = last'.schema.name
                            /\ ~a.deleted) =>
        LET a == CHOOSE x \in attrs : x.entity = last'.attr
                                      /\ x.code = last'.schema.name /\ ~x.deleted
        IN
        /\ last'.err = ""
        /\ \E b \in attrs' : b.id = a.id /\ b.schema = last'.schema
        /\ a.schema.field_type # last'.schema.field_type =>
            \A r \in RowsOf(a.id) : \E q \in vals' :
                /\ q.id = r.id
                /\ q.value = _convert_value(r.value, last'.schema.field_type)]_vars

(***************************************************************************)
(* Destroying an entity: AbstractEntityModel.destroy_wrap                  *)
(***************************************************************************)
MaxDestroy == 3

\* The exception destroy_wrap raises for an entity with incoming links.
HasIncomingLinks == "Exception"

\* The live relation attributes that point at entity e.
incoming_attrs(e, all) ==
    {a \in all : a.is_relation /\ a.destination = e /\ ~a.deleted}

\* AbstractEntityModel.get_incoming_links: the comprehension reads a.sourse
\* of every attribute of the queryset; an attribute has no such member
\* ("sourse" is the reverse accessor on the entity), so a non-empty
\* queryset raises AttributeError.
get_incoming_links(e, all) ==
    IF incoming_attrs(e, all) # {}
    THEN [err |-> "AttributeError", links |-> <<>>]
    ELSE [err |-> "", links |-> <<>>]

\* AbstractEntityModel.get_outgoing_links: values_list("destination",
\* flat=True) of the live relation attributes, i.e. primary keys.
RECURSIVE destinations(_)
destinations(rel) ==
    IF rel = <<>> THEN <<>>
    ELSE <<Head(rel).destination>> \o destinations(Tail(rel))
get_outgoing_links(e, all) ==
    destinations(SeqOf({a \in all : a.entity = e /\ a.is_relation /\ ~a.deleted}))

\* attr.values.all().delete(): a queryset delete, which removes the rows
\* without calling AbstractValueModel.delete.
values_delete(aids, rows) == {r \in rows : r.attribute \notin aids}

\* The force branch over the incoming attributes: the values of the first
\* one are deleted, its destination is cleared and attr.delete() saves it;
\* save() refuses a relation without destination.
tombstone_incoming(e, es, all, rows) ==
    LET first == Head(SeqOf(incoming_attrs(e, all))) IN
    [err |-> "AttributeError", attrs |-> all, ents |-> es,
     rows |-> values_delete({first.id}, rows)]

\* Model.delete of the entity row: the rows that reference it through a
\* foreign key with on_delete=CASCADE go with it (attributes by entity and
\* by destination, values by entity and by attribute).
entity_delete(e, es, all, rows) ==
    LET gone == {a \in all : a.entity = e \/ a.destination = e} IN
    [err |-> "", ents |-> es \ {e}, attrs |-> all \ gone,
     rows |-> {r \in rows : r.entity # e /\ r.attribute \notin {a.id : a \in gone}}]

\* AbstractEntityModel.destroy_wrap(force).
destroy_wrap(e, force, es, all, rows) ==
    LET incoming == get_incoming_links(e, all)
        own == {a.id : a \in {x \in all : x.entity = e}}
        cleared == values_delete(own, rows)
        out == get_outgoing_links(e, all)
    IN
    IF incoming.err # ""
    THEN [err |-> incoming.err, ents |-> es, attrs |-> all, rows |-> rows]
    ELSE IF incoming.links # <<>> /\ ~force
    THEN [err |-> HasIncomingLinks, ents |-> es, attrs |-> all, rows |-> rows]
    ELSE IF incoming.links # <<>>
    THEN tombstone_incoming(e, es, all, rows)
    ELSE IF \E i \in 1..Len(out) : out[i] # 0
    \* dest is a primary key: dest.destroy_wrap raises AttributeError
    THEN [err |-> "AttributeError", ents |-> es, attrs |-> all, rows |-> cleared]
    ELSE entity_delete(e, es, all, cleared)

\* The relation-attribute tables drawn over the first MaxDestroy entities.
DestroyGraphs ==
    {g \in Graphs : \A a \in g : a.entity <= MaxDestroy /\ a.destination <= MaxDestroy}

\* entity.destroy_wrap(force=force)
Destroy(e, force) ==
    /\ e \in ents
    /\ LET out == destroy_wrap(e, force, ents, attrs, vals) IN
        /\ ents' = out.ents
        /\ attrs' = out.attrs
        /\ vals' = out.rows
        /\ last' = [op |-> IF force THEN "destroy_force" ELSE "destroy",
                    attr |-> e, err |-> out.err, res |-> <<>>]
    /\ UNCHANGED <<now, nextVid, schemaVars, writers>>

\* attribute.delete(): the attribute is tombstoned and saved.
AttrDelete(aid) ==
    /\ aid \in {a.id : a \in attrs}
    /\ LET a == AttrRow(aid) IN
        IF a.is_relation /\ a.destination = 0
        THEN /\ last' = [op |-> "attr_delete", attr |-> aid,
                         err |-> "AttributeError", res |-> <<>>]
             /\ UNCHANGED attrs
        ELSE /\ last' = [op |-> "attr_delete", attr |-> aid, err |-> "", res |-> <<>>]
             /\ attrs' = (attrs \ {a}) \cup {[a EXCEPT !.deleted = TRUE]}
    /\ UNCHANGED <<vals, ents, now, nextVid, schemaVars, writers>>

DestroyInit ==
    /\ SchemaIdle
    /\ ents = 1..MaxDestroy
    /\ attrs \in DestroyGraphs
    /\ vals = {}
    /\ now = 1
    /\ nextVid = 1
    /\ last = [op |-> "init", attr |-> 0, err |-> "", res |-> <<>>]

DestroyNext ==
    \/ \E aid \in 1..(2 * MaxDestroy), v \in InputValues, tb \in TieBreaks :
            SetValue(aid, v, tb)
    \/ \E aid \in 1..(2 * MaxDestroy) : AttrDelete(aid)
    \/ \E e \in 1..MaxDestroy, force \in BOOLEAN : Destroy(e, force)

DestroySpec == DestroyInit /\ [][DestroyNext]_vars

(***************************************************************************)
(* Claims about destroying an entity.                                      *)
(***************************************************************************)
\* C9: destroy_wrap(force=False) of an entity that is the destination of a
\* live relation attribute fails with the incoming-links exception and
\* leaves every entity, attribute and value row unchanged.
C9_GuardedDestroyFails ==
    [][(last'.op = "destroy" /\ incoming_attrs(last'.attr, attrs) # {}) =>
        /\ last'.err = HasIncomingLinks
        /\ UNCHANGED <<ents, attrs, vals>>]_vars

\* C10: destroy_wrap(force=True) of an entity with incoming relation
\* attributes succeeds: the entity row is gone, and every attribute that
\* pointed at it still exists, tombstoned, without destination and without
\* value rows.
C10_ForcedDestroyTombstones ==
    [][(last'.op = "destroy_force" /\ incoming_attrs(last'.attr, attrs) # {}) =>
        /\ last'.err = ""
        /\ last'.attr \notin ents'
        /\ \A a \in incoming_attrs(last'.attr, attrs) :
            /\ \E b \in attrs' : b.id = a.id /\ b.deleted /\ b.destination = 0
            /\ \A r \in vals' : r.attribute # a.id]_vars

(***************************************************************************)
(* Uniqueness of values: datacore/models/factory.py BaseValueModel.save    *)
(* and AbstractAttributeModel.set_value                                    *)
\* C22: a forced destroy of an entity that has outgoing links, whatever the
\* shape of the relation graph, completes without error and the entity is
\* gone after it.
C22_CascadeCompletes ==
    [][(last'.op = "destroy_force"
            /\ \E a \in attrs : a.entity = last'.attr /\ a.is_relation
                    /\ ~a.deleted /\ a.destination # 0) =>
        /\ last'.err = ""
        /\ last'.attr \notin ents']_vars

\* C23: after every step no live relation attribute points at an entity
\* that does not exist, and a step that removes an entity removes no
\* attribute and no value owned by an entity that stays.
C23_NoDanglingNoCollateral ==
    [][/\ \A a \in attrs' :
            (a.is_relation /\ ~a.deleted /\ a.destination # 0) =>
                a.destination \in ents'
       /\ ents' # ents =>
            /\ \A a \in attrs :
                a.entity \in ents' => \E b \in attrs' : b.id = a.id
            /\ \A r \in vals :
                r.entity \in ents' => \E q \in vals' : q.id = r.id]_vars

(***************************************************************************)
MaxOwners == 3

\* UNIQUE_SET: the uniqueness modes of a schema.
UniqueNormal == 0
UniqueGlobaly == 1
UniqueEntity == 2

\* The mode declared for an attribute code.
unique_set(code) == IF code = "ssn" THEN UniqueGlobaly ELSE UniqueNormal

\* BaseAttributeModel declares schema and meta_data only, and the attribute
\* model the factory builds adds no field: self.attribute.unique_set, the
\* first expression of BaseValueModel.save, raises AttributeError.
attribute_unique_set_defined == FALSE

\* BaseValueModel.save.  The factory's tables hold one attribute row for all
\* entities; here an attribute row belongs to one entity, and "the same
\* attribute" is the same code.  After the uniqueness tests the method reads
\* FIELD_TYPES.relationship, which the Choices do not define.
base_value_save(obj, all, rows) ==
    LET a == CHOOSE x \in all : x.id = obj.attribute
        same == {r \in rows :
                    /\ (CHOOSE x \in all : x.id = r.attribute).code = a.code
                    /\ r.value = obj.value}
    IN
    IF ~attribute_unique_set_defined
    THEN [err |-> "AttributeError", rows |-> rows]
    ELSE IF unique_set(a.code) = UniqueGlobaly /\ same # {}
    THEN [err |-> "ValueError", rows |-> rows]
    ELSE IF unique_set(a.code) = UniqueEntity
            /\ \E r \in same : r.entity = obj.entity
    THEN [err |-> "ValueError", rows |-> rows]
    ELSE [err |-> "AttributeError", rows |-> rows]

UniqueValues == {IntV(1), IntV(2)}

\* value_model(entity=..., attribute=..., value=v).save() through the
\* factory's value model.
BaseSave(aid, v) ==
    /\ aid \in {a.id : a \in attrs}
    /\ LET a == AttrRow(aid)
           out == base_value_save([id |-> 0, entity |-> a.entity, attribute |-> aid,
                                   value |-> v, timestamp |-> 0], attrs, vals)
       IN
        /\ vals' = out.rows
        /\ last' = [op |-> "base_save", attr |-> aid, err |-> out.err, res |-> <<>>]
    /\ UNCHANGED <<attrs, ents, now, nextVid, schemaVars, writers>>

\* Every entity owns the time-series attribute "ssn".
UniqueInit ==
    /\ SchemaIdle
    /\ ents = 1..MaxOwners
    /\ attrs = {Attr(e, e, "ssn", Sch("ssn", <<1, 0>>, FtInteger), TRUE, FALSE, 0) :
                    e \in 1..MaxOwners}
    /\ vals = {}
    /\ now = 1
    /\ nextVid = 1
    /\ last = [op |-> "init", attr |-> 0, err |-> "", res |-> <<>>]

UniqueNext ==
    \/ Tick
    \/ \E aid \in 1..MaxOwners, v \in UniqueValues, tb \in TieBreaks :
            SetValue(aid, v, tb)
    \/ \E aid \in 1..MaxOwners, v \in UniqueValues : BaseSave(aid, v)

UniqueSpec == UniqueInit /\ [][UniqueNext]_vars

(***************************************************************************)
(* Claims about uniqueness.                                                *)
(***************************************************************************)
\* The exception a uniqueness violation raises.
NotUnique == "ValueError"

\* No two entities hold the same value for a globally unique code.
NoSharedValue(rows) ==
    \A r, q \in rows :
        (/\ r.entity # q.entity
         /\ AttrRow(r.attribute).code = AttrRow(q.attribute).code
         /\ unique_set(AttrRow(r.attribute).code) = UniqueGlobaly) =>
            r.value # q.value

\* C11: for a globally unique code the first write of a value succeeds, a
\* write of a value another entity holds fails with the uniqueness error
\* and writes nothing, and so no two entities ever hold the same value.
C11_GlobalUnique ==
    [][(last'.op \in {"set_value", "base_save"}
        /\ unique_set(AttrRow(last'.attr).code) = UniqueGlobaly) =>
        /\ vals = {} => (last'.err = "" /\ vals' # {})
        /\ last'.err # "" => (last'.err = NotUnique /\ vals' = vals)
        /\ NoSharedValue(vals) => NoSharedValue(vals')]_vars

(***************************************************************************)
(* Resolving a schema document: SchemaModel.get_schema                     *)
(***************************************************************************)
\* The schema document of an in-memory instance: None, the dict save()
\* generates, or a remote reference {"$ref": url}.
SchemaDocs == {[kind |-> "none", url |-> ""],
               [kind |-> "plain", url |-> ""],
               [kind |-> "ref", url |-> "u1"]}

\* What requests.get(url).json() does: the document arrives, the transport
\* fails (requests.RequestException), or the body is not JSON.
Nets == {"ok", "fail", "not_json"}

\* The body of get_schema.  The result is the class Schema.from_dict builds,
\* named by the document it was built from.
get_schema_body(doc, net) ==
    IF doc.kind = "none"
    \* "$ref" in None
    THEN [err |-> "TypeError", res |-> doc]
    ELSE IF doc.kind = "ref"
    THEN CASE net = "fail" -> [err |-> "RequestException", res |-> doc]
           [] net = "not_json" -> [err |-> "JSONDecodeError", res |-> doc]
           [] OTHER -> [err |-> "", res |-> [kind |-> "remote", url |-> doc.url]]
    ELSE [err |-> "", res |-> doc]

\* SchemaModel.get_schema under functools.lru_cache: the key is the
\* instance, hashed and compared by primary key (an instance without one is
\* unhashable); a hit returns the stored result without running the body,
\* and a call that raises stores nothing.
get_schema(pk, doc, net, cache) ==
    IF pk = 0
    THEN [err |-> "TypeError", res |-> doc, hit |-> FALSE, cache |-> cache]
    ELSE IF \E c \in cache : c[1] = pk
    THEN [err |-> "", res |-> (CHOOSE c \in cache : c[1] = pk)[2],
          hit |-> TRUE, cache |-> cache]
    ELSE LET out == get_schema_body(doc, net) IN
         [err |-> out.err, res |-> out.res, hit |-> FALSE,
          cache |-> IF out.err = "" THEN cache \cup {<<pk, out.res>>} ELSE cache]

\* schema.get_schema() of an in-memory instance.
GetSchema(pk, doc, net) ==
    /\ LET out == get_schema(pk, doc, net, schema_cache) IN
        /\ schema_cache' = out.cache
        /\ last' = [op |-> "get_schema", pk |-> pk, err |-> out.err, doc |-> doc,
                    net |-> net, hit |-> out.hit, res |-> out.res]
    /\ UNCHANGED <<schemas, links, nextSid, storeVars, writers>>

ResolveInit ==
    /\ SchemaIdle
    /\ StoreIdle
    /\ last = [op |-> "init", pk |-> 0, err |-> ""]

ResolveNext ==
    \E pk \in 0..MaxSid, doc \in SchemaDocs, net \in Nets : GetSchema(pk, doc, net)

ResolveSpec == ResolveInit /\ [][ResolveNext]_vars

(***************************************************************************)
(* Claims about resolving a schema document.                               *)
(***************************************************************************)
\* C12: when the document holds a remote reference and fetching it fails
\* with a network error, get_schema raises ValidationError; the transport
\* exception does not reach the caller.
C12_NetworkFailureControlled ==
    (/\ last.op = "get_schema"
     /\ last.pk # 0
     /\ last.doc.kind = "ref"
     /\ ~last.hit
     /\ last.net = "fail") => last.err = "ValidationError"

(***************************************************************************)
(* The class tree and AbstractEntityModel.to_dict                          *)
(***************************************************************************)
\* The entity classes of the tree: c0 is the root, c1 and c2 its children.
TreeClasses == {"c0", "c1", "c2"}
tn_parent(c) == IF c = "c0" THEN "" ELSE "c0"

\* The class of an entity row.
entity_class(e) == "c1"

\* TreeNodeModel.get_ancestors(include_self=True) restricted to the node
\* itself.
get_ancestors_self(c) == <<c>>

\* TreeNodeModel.get_ancestors(include_self=True): from the root down to
\* the node.
RECURSIVE get_ancestors(_)
get_ancestors(c) ==
    IF tn_parent(c) = "" THEN <<c>> ELSE Append(get_ancestors(tn_parent(c)), c)

\* reversed(seq)
RECURSIVE reversed(_)
reversed(seq) ==
    IF seq = <<>> THEN <<>> ELSE Append(reversed(Tail(seq)), Head(seq))

\* The schema rows a class links (node.schemas.all()), as the attributes
\* reference them.
class_schemas(c, lnk, rows) ==
    {Sch(r.name, r.version, r.field_type) : r \in {x \in rows : <<c, x.id>> \in lnk}}

\* AbstractAttributeModel.to_dict(include_values=True).
attribute_to_dict(a, rows, tb) ==
    [code |-> a.code, schema |-> a.schema, is_multiple |-> a.is_multiple,
     is_relation |-> a.is_relation,
     destination |-> IF a.is_relation THEN a.destination ELSE 0,
     values |-> get_value(a, rows, tb)]

RECURSIVE attributes_to_dict(_, _, _)
attributes_to_dict(as, rows, tb) ==
    IF as = <<>> THEN <<>>
    ELSE <<attribute_to_dict(Head(as), rows, tb)>>
            \o attributes_to_dict(Tail(as), rows, tb)

\* One pass of the loop of to_dict over the classes: the entries of the
\* live attributes of the entity bound to a schema of the class.
RECURSIVE to_dict_loop(_, _, _, _, _, _, _, _)
to_dict_loop(nodes, e, rel, all, lnk, srows, rows, tb) ==
    IF nodes = <<>> THEN <<>>
    ELSE attributes_to_dict(
            SeqOf({a \in all : /\ a.entity = e
                               /\ a.schema \in class_schemas(Head(nodes), lnk, srows)
                               /\ a.is_relation = rel
                               /\ ~a.deleted}),
            rows, tb)
         \o to_dict_loop(Tail(nodes), e, rel, all, lnk, srows, rows, tb)

\* AbstractEntityModel.to_dict(include_links=True, include_values=True).
to_dict(e, all, lnk, srows, rows, tb) ==
    LET nodes == reversed(get_ancestors(entity_class(e))) IN
    [type_id |-> entity_class(e),
     properties |-> to_dict_loop(nodes, e, FALSE, all, lnk, srows, rows, tb),
     links |-> to_dict_loop(nodes, e, TRUE, all, lnk, srows, rows, tb)]

\* The schema rows and the attributes the entity can own: one per schema
\* name, a property or a link, live or tombstoned.
DictSchemas == {RowOf([pk |-> i, name |-> IF i = 1 THEN "a" ELSE "b",
                       title |-> IF i = 1 THEN "A" ELSE "B", version |-> <<1, 0>>,
                       field_type |-> FtString, is_multiple |-> FALSE], i) : i \in 1..2}
DictAttrs(i) ==
    LET r == CHOOSE x \in DictSchemas : x.id = i IN
    {[Attr(i, 1, r.name, Sch(r.name, r.version, r.field_type), FALSE, rel,
           IF rel THEN 1 ELSE 0) EXCEPT !.deleted = del] :
        rel \in BOOLEAN, del \in BOOLEAN}

\* entity.to_dict()
ToDict(e, tb) ==
    /\ e \in ents
    /\ LET out == to_dict(e, attrs, links, schemas, vals, tb) IN
        last' = [op |-> "to_dict", attr |-> e, err |-> "",
                 properties |-> out.properties, links |-> out.links]
    /\ UNCHANGED <<storeVars, schemaVars, writers>>

DictInit ==
    /\ schemas = DictSchemas
    /\ links \in SUBSET (TreeClasses \X {1, 2})
    /\ nextSid = 3
    /\ schema_cache = {}
    /\ writers = <<>>
    /\ ents = {1}
    /\ \E s1 \in SUBSET DictAttrs(1), s2 \in SUBSET DictAttrs(2) :
        /\ Cardinality(s1) <= 1
        /\ Cardinality(s2) <= 1
        /\ attrs = s1 \cup s2
    /\ vals = {}
    /\ now = 1
    /\ nextVid = 1
    /\ last = [op |-> "init", attr |-> 0, err |-> ""]

DictNext == \E e \in {1}, tb \in TieBreaks : ToDict(e, tb)

DictSpec == DictInit /\ [][DictNext]_vars

(***************************************************************************)
(* Claims about to_dict.                                                   *)
(***************************************************************************)
\* The class of an entity and the classes above it.
RECURSIVE ClassLine(_)
ClassLine(c) == IF c = "" THEN {} ELSE {c} \cup ClassLine(tn_parent(c))

\* The live attributes of entity e bound to a schema of its class line.
Effective(e, rel) ==
    {a \in attrs :
        /\ a.entity = e /\ ~a.deleted /\ a.is_relation = rel
        /\ \E c \in ClassLine(entity_class(e)), r \in schemas :
            /\ <<c, r.id>> \in links
            /\ a.schema = Sch(r.name, r.version, r.field_type)}

Codes(entries) == {entries[i].code : i \in 1..Len(entries)}

\* C13: to_dict lists under properties the live non-relation attributes of
\* the entity whose schema belongs to its class or an ancestor class, under
\* links the live relation attributes of those schemas, and no tombstoned
\* attribute.
C13_ToDictInherits ==
    last.op = "to_dict" =>
        /\ Codes(last.properties) = {a.code : a \in Effective(last.attr, FALSE)}
        /\ Codes(last.links) = {a.code : a \in Effective(last.attr, TRUE)}

\* An entity with an inherited property, and a tombstoned attribute of a
\* linked schema that is left out.
C13_Witness ==
    /\ last.op = "to_dict"
    /\ \E a \in Effective(last.attr, FALSE) :
        /\ a.code \in Codes(last.properties)
        /\ \A r \in schemas : a.schema = Sch(r.name, r.version, r.field_type) =>
                (<<"c0", r.id>> \in links /\ <<"c1", r.id>> \notin links)
    /\ \E a \in attrs :
        /\ a.deleted
        /\ a.code \notin Codes(last.properties) \cup Codes(last.links)
        /\ \E r \in schemas : <<"c1", r.id>> \in links
                              /\ a.schema = Sch(r.name, r.version, r.field_type)

(***************************************************************************)
(* Validation against a schema: datacore/models/schema.py                  *)
(***************************************************************************)
\* FIELD_TYPES codes and the last code of field_type_mapping.
FieldBool == 1
FieldConst == 2
FieldEnum == 7
FieldInt == 10
FieldString == 12
FieldMapped == 18

\* VALIDATOR_TYPES codes.
ValEqual == 0
ValOneOf == 2
ValRange == 3

\* Validator rows: the type and the parameters (two numbers: the comparable
\* and unused, the two choices, or min and max).
ValidatorInfos ==
    {[type |-> ValEqual, params |-> <<1, 1>>],
     [type |-> ValOneOf, params |-> <<1, 5>>],
     [type |-> ValRange, params |-> <<2, 9>>]}

MaxValidators == 2
ValidatorLists == UNION {[1..n -> ValidatorInfos] : n \in 0..MaxValidators}

\* Schema.get_marshmallow_field_type: only on a root schema, a code of the
\* mapping; Constant() and Enum() need an argument the call does not pass.
get_marshmallow_field_type(schema) ==
    IF ~schema.is_root THEN "ValueError"
    ELSE IF schema.field_type \notin 0..FieldMapped THEN "ValueError"
    ELSE IF schema.field_type \in {FieldConst, FieldEnum} THEN "TypeError"
    ELSE ""

\* Schema.validate_data: get_schema(), then one validator instance per row
\* (the loop reads validator_info.type_field; the column is named type),
\* then schema.validate(data, validator=OneOf(instances)); marshmallow's
\* Schema.validate takes no keyword validator.
validate_data(schema, validators, data) ==
    IF get_marshmallow_field_type(schema) # ""
    THEN [err |-> get_marshmallow_field_type(schema), errors |-> <<>>]
    ELSE IF validators # <<>>
    THEN [err |-> "AttributeError", errors |-> <<>>]
    ELSE [err |-> "TypeError", errors |-> <<>>]

ValidateSchemas ==
    [is_root : BOOLEAN, field_type : {FieldBool, FieldConst, FieldInt, FieldString, 99}]
ValidateData == {IntV(1), IntV(5), StrV("abc")}

\* schema.validate_data(data) for the call drawn in last.
ValidateDataCall ==
    /\ last.op = "init"
    /\ LET out == validate_data(last.schema, last.validators, last.data) IN
        last' = [last EXCEPT !.op = "validate_data", !.err = out.err,
                             !.errors = out.errors]
    /\ UNCHANGED <<storeVars, schemaVars, writers>>

ValidateInit ==
    /\ SchemaIdle
    /\ StoreIdle
    /\ \E s \in ValidateSchemas, vs \in ValidatorLists, d \in ValidateData :
        last = [op |-> "init", schema |-> s, validators |-> vs, data |-> d,
                err |-> "", errors |-> <<>>]

ValidateNext == ValidateDataCall

ValidateSpec == ValidateInit /\ [][ValidateNext]_vars

(***************************************************************************)
(* Claims about validation.                                                *)
(***************************************************************************)
\* The structural type check of a value.
TypeOk(field_type, v) ==
    CASE field_type = FieldInt -> v[1].t = "int"
      [] field_type = FieldString -> v[1].t = "str"
      [] field_type = FieldBool -> v[1].t = "bool"
      [] OTHER -> TRUE

\* One validator accepts a value.
Accepts(vi, v) ==
    CASE vi.type = ValEqual -> v = IntV(vi.params[1])
      [] vi.type = ValOneOf -> v \in {IntV(vi.params[1]), IntV(vi.params[2])}
      [] OTHER -> v[1].t = "int" /\ vi.params[1] <= v[1].n /\ v[1].n <= vi.params[2]

\* C14: validate_data returns no violations if and only if the value passes
\* the type check and every validator of the schema (logical AND).
C14_ValidatorsConjoined ==
    (/\ last.op = "validate_data"
     /\ last.schema.is_root
     /\ last.schema.field_type \in {FieldBool, FieldInt, FieldString}) =>
        /\ last.err = ""
        /\ last.errors = <<>> <=>
            /\ TypeOk(last.schema.field_type, last.data)
            /\ \A i \in 1..Len(last.validators) : Accepts(last.validators[i], last.data)

(***************************************************************************)
(* Writing a document: AbstractEntityModel.set_data with validation        *)
(***************************************************************************)
MaxFields == 2

\* The documents written: up to MaxFields fields of distinct codes, "zz"
\* naming no attribute.
DataFields == [code : {"p", "q", "zz"}, value : {IntV(1), StrV("abc")}]
DataDocs ==
    {d \in UNION {[1..n -> DataFields] : n \in 1..MaxFields} :
        \A i, j \in 1..Len(d) : d[i].code = d[j].code => i = j}

\* entity.set_data(doc, validate=validating); the error list set_data
\* returns is the list validate() returned.
SetData(e, doc, validating, tb) ==
    /\ e \in ents
    /\ nextVid <= MaxVid
    /\ LET out == set_data(e, doc, validating, attrs, vals, nextVid, now, tb) IN
        /\ vals' = out.rows
        /\ nextVid' = out.vid
        /\ last' = [op |-> "set_data", attr |-> e, err |-> out.err, res |-> <<>>,
                    doc |-> doc, validating |-> validating, errors |-> <<>>]
    /\ UNCHANGED <<attrs, ents, now, schemaVars, writers>>

DataInit == ValuesInit

DataNext ==
    \/ \E aid \in 1..2, v \in InputValues, tb \in TieBreaks : SetValue(aid, v, tb)
    \/ \E e \in {1}, doc \in DataDocs, validating \in BOOLEAN, tb \in TieBreaks :
            SetData(e, doc, validating, tb)

DataSpec == DataInit /\ [][DataNext]_vars

(***************************************************************************)
(* Claims about writing a document.                                        *)
(***************************************************************************)
\* The fields of a document that name a live attribute of e and hold a
\* value that is not of the attribute's field type.
InvalidFields(e, doc) ==
    {doc[i].code : i \in {j \in 1..Len(doc) :
        \E a \in attrs :
            /\ a.entity = e /\ ~a.deleted /\ a.code = doc[j].code
            /\ a.schema.field_type \in {FtInt, FtInteger}
            /\ doc[j].value[1].t # "int"}}

\* C15: set_data with validation and at least one invalid field returns an
\* error list with one entry per invalid field and creates or changes no
\* Value row.
C15_InvalidDocumentRejected ==
    [][(/\ last'.op = "set_data"
        /\ last'.validating
        /\ InvalidFields(last'.attr, last'.doc) # {}) =>
        /\ last'.err = ""
        /\ {last'.errors[i] : i \in 1..Len(last'.errors)}
                = InvalidFields(last'.attr, last'.doc)
        /\ vals' = vals]_vars

(***************************************************************************)
(* Schema-set diff: datacore/models/models.py                              *)
(***************************************************************************)
DiffNames == Names \cup {"c"}

\* The rows of a .schemas.all() queryset, as far as diff_schemas reads them.
\* SchemaModel.name is unique, so no two rows of a set share a name.
SchemaSets ==
    {s \in SUBSET [name : DiffNames, version : Versions] :
        \A x, y \in s : x.name = y.name => x = y}

\* {sh.name: sh.version for sh in schemas}
version_map(s) ==
    [n \in {r.name : r \in s} |-> (CHOOSE r \in s : r.name = n).version]

\* diff_schemas with every common name reported as updated.
diff_schemas_common(old_schemas, new_schemas) ==
    LET old_names == DOMAIN version_map(old_schemas)
        new_names == DOMAIN version_map(new_schemas)
    IN  [added |-> new_names \ old_names,
         removed |-> old_names \ new_names,
         updated |-> old_names \cap new_names]

\* AbstractEntityClassModel.diff_schemas
diff_schemas(old_schemas, new_schemas) ==
    LET old_map == version_map(old_schemas)
        new_map == version_map(new_schemas)
        old_names == DOMAIN old_map
        new_names == DOMAIN new_map
        common == old_names \cap new_names
    IN  [added |-> new_names \ old_names,
         removed |-> old_names \ new_names,
         updated |-> {name \in common : old_map[name] # new_map[name]}]

\* A call of diff_schemas on the two schema sets drawn at the start.
DiffSchemas ==
    /\ last.op = "init"
    /\ LET d == diff_schemas(last.old, last.new) IN
       last' = [last EXCEPT !.op = "diff_schemas", !.added = d.added,
                            !.removed = d.removed, !.updated = d.updated]
    /\ UNCHANGED <<schemaVars, storeVars, writers>>

DiffInit ==
    /\ SchemaIdle
    /\ StoreIdle
    /\ \E o \in SchemaSets, n \in SchemaSets :
        last = [op |-> "init", old |-> o, new |-> n,
                added |-> {}, removed |-> {}, updated |-> {}]

DiffNext == DiffSchemas

DiffSpec == DiffInit /\ [][DiffNext]_vars

\* C17: diff_schemas compares by name: added is exactly the names only in
\* the new set, removed exactly the names only in the old set, updated
\* exactly the names in both whose versions differ; the three sets are
\* pairwise disjoint, and the diff of a set with itself is three empty sets.
C17_DiffByName ==
    last.op = "diff_schemas" =>
        LET olds == {r.name : r \in last.old}
            news == {r.name : r \in last.new}
        IN
        /\ last.added = {n \in DiffNames : n \in news /\ n \notin olds}
        /\ last.removed = {n \in DiffNames : n \in olds /\ n \notin news}
        /\ last.updated = {n \in DiffNames :
                \E o \in last.old, w \in last.new :
                    o.name = n /\ w.name = n /\ o.version # w.version}
        /\ last.added \cap last.removed = {}
        /\ last.added \cap last.updated = {}
        /\ last.removed \cap last.updated = {}
        /\ last.old = last.new =>
            (last.added = {} /\ last.removed = {} /\ last.updated = {})

\* A diff that reports an added, a removed and an updated name.
C17_Witness ==
    /\ last.op = "diff_schemas"
    /\ last.added # {}
    /\ last.removed # {}
    /\ last.updated # {}

(***************************************************************************)
(* Schema-set migration of an entity class: datacore/models/models.py,     *)
(* datacore/models/entity.py                                               *)
(***************************************************************************)
\* The name and version of a schema row, as diff_schemas reads them.
name_version(r) == [name |-> r.name, version |-> r.version]

\* cls.schemas.all(): the rows the class links.
schemas_all(c, lnk, rows) == {r \in rows : <<c, r.id>> \in lnk}

\* create_models_for gives the entity model's foreign key to the class the
\* related_name "entity_set": an entity class has no attribute entities and
\* make_migrations raises AttributeError on its first line.
class_entities_defined == FALSE

\* SchemaModel has no method get: add_attribute raises AttributeError at
\* schema.get("many", False), before objects.create.
schema_get_defined == FALSE

\* entity.add_attribute(schema).  Past schema.get, objects.create inserts a
\* row with code = schema.name; the table's unique_together of (entity,
\* code) spans tombstoned rows too and rejects a second row of the code.
add_attribute(e, schema, all, rows) ==
    IF ~schema_get_defined
    THEN [err |-> "AttributeError", attrs |-> all, rows |-> rows]
    ELSE IF \E a \in all : a.entity = e /\ a.code = schema.name
    THEN [err |-> "IntegrityError", attrs |-> all, rows |-> rows]
    ELSE LET id == 1 + Cardinality(all) IN
         [err |-> "",
          attrs |-> all \cup {Attr(id, e, schema.name, schema, FALSE, FALSE, 0)},
          rows |-> rows]

\* entity.remove_attribute(schema): QuerySet.update(deleted=True) on the
\* live attributes of the entity with the schema's name as code.
remove_attribute(e, schema, all, rows) ==
    [err |-> "",
     attrs |-> {IF a.entity = e /\ a.code = schema.name /\ ~a.deleted
                THEN [a EXCEPT !.deleted = TRUE] ELSE a : a \in all},
     rows |-> rows]

\* AbstractEntityClassModel.make_migrations: self.entities is read first;
\* past it, added + removed + updated is evaluated on the sets that save()
\* passes, which raises TypeError.
make_migrations(c, added, removed, updated, lnk, srows, es, all, rows) ==
    IF ~class_entities_defined
    THEN [err |-> "AttributeError", attrs |-> all, rows |-> rows]
    ELSE [err |-> "TypeError", attrs |-> all, rows |-> rows]

\* self.schemas != old.schemas in save(): BaseManager.__eq__ compares the
\* class and the constructor arguments of the two related managers, which
\* are the two instances of the same row: they are equal by primary key.
managers_differ(self_pk, old_pk) == self_pk # old_pk

\* AbstractEntityClassModel.save of a persisted class: old is read back
\* from the database, and so are both old.schemas.all() and
\* self.schemas.all(), because a many-to-many change is written when it is
\* made.
class_save(c, lnk, srows, es, all, rows) ==
    LET old_schemas == {name_version(r) : r \in schemas_all(c, lnk, srows)}
        new_schemas == {name_version(r) : r \in schemas_all(c, lnk, srows)}
        d == diff_schemas(old_schemas, new_schemas)
    IN
    IF managers_differ(c, c) /\ (d.added \cup d.removed \cup d.updated) # {}
    THEN make_migrations(c, d.added, d.removed, d.updated, lnk, srows, es,
                         all, rows)
    ELSE [err |-> "", attrs |-> all, rows |-> rows]

\* The schema rows, entities, attributes and values of the class c1.
ClassSchemas ==
    {RowOf([pk |-> 1, name |-> "a", title |-> "A", version |-> <<1, 0>>,
            field_type |-> FtString, is_multiple |-> FALSE], 1),
     RowOf([pk |-> 2, name |-> "b", title |-> "B", version |-> <<1, 0>>,
            field_type |-> FtInteger, is_multiple |-> FALSE], 2)}
ClassEntities == {1, 2}
ClassAttrs(e) ==
    {[Attr(e, e, "a", Sch("a", <<1, 0>>, FtString), FALSE, FALSE, 0)
        EXCEPT !.deleted = del] : del \in BOOLEAN}
ClassValues ==
    {[id |-> 1, entity |-> 1, attribute |-> 1, value |-> StrV("x"),
      timestamp |-> 0]}

\* The names each argument of make_migrations may hold: every name is in
\* at most one of added, removed and updated.
MigrationArgs ==
    {[added |-> {n \in Names : f[n] = "added"},
      removed |-> {n \in Names : f[n] = "removed"},
      updated |-> {n \in Names : f[n] = "updated"}] :
        f \in [Names -> {"", "added", "removed", "updated"}]}
NoArgs == [added |-> {}, removed |-> {}, updated |-> {}]

\* The schema set of the class as of its last save.
Persisted(c) == {name_version(r) : r \in schemas_all(c, links, schemas)}

\* cls.schemas.add(schema)
SchemasAdd(c, pk) ==
    /\ pk \in SchemaIds
    /\ <<c, pk>> \notin links
    /\ links' = links \cup {<<c, pk>>}
    /\ last' = [op |-> "schemas_add", pk |-> pk, err |-> "", args |-> NoArgs,
                saved |-> last.saved]
    /\ UNCHANGED <<schemas, nextSid, schema_cache, storeVars, writers>>

\* cls.schemas.remove(schema)
SchemasRemove(c, pk) ==
    /\ <<c, pk>> \in links
    /\ links' = links \ {<<c, pk>>}
    /\ last' = [op |-> "schemas_remove", pk |-> pk, err |-> "",
                args |-> NoArgs, saved |-> last.saved]
    /\ UNCHANGED <<schemas, nextSid, schema_cache, storeVars, writers>>

\* cls.save()
ClassSave(c) ==
    /\ LET out == class_save(c, links, schemas, ents, attrs, vals) IN
        /\ attrs' = out.attrs
        /\ vals' = out.rows
        /\ last' = [op |-> "class_save", pk |-> 0, err |-> out.err,
                    args |-> NoArgs, saved |-> Persisted(c)]
    /\ UNCHANGED <<ents, now, nextVid, schemaVars, writers>>

\* cls.make_migrations(added, removed, updated)
MakeMigrations(c, args) ==
    /\ LET out == make_migrations(c, args.added, args.removed, args.updated,
                                  links, schemas, ents, attrs, vals) IN
        /\ attrs' = out.attrs
        /\ vals' = out.rows
        /\ last' = [op |-> "make_migrations", pk |-> 0, err |-> out.err,
                    args |-> args, saved |-> last.saved]
    /\ UNCHANGED <<ents, now, nextVid, schemaVars, writers>>

\* entity.add_attribute(schema) of a schema row
AddAttribute(e, pk) ==
    /\ e \in ents
    /\ pk \in SchemaIds
    /\ LET r == SchemaRow(pk)
           out == add_attribute(e, Sch(r.name, r.version, r.field_type),
                                attrs, vals) IN
        /\ attrs' = out.attrs
        /\ vals' = out.rows
        /\ last' = [op |-> "add_attribute", pk |-> pk, err |-> out.err,
                    args |-> NoArgs, saved |-> last.saved]
    /\ UNCHANGED <<ents, now, nextVid, schemaVars, writers>>

\* entity.remove_attribute(schema) of a schema row
RemoveAttribute(e, pk) ==
    /\ e \in ents
    /\ pk \in SchemaIds
    /\ LET r == SchemaRow(pk)
           out == remove_attribute(e, Sch(r.name, r.version, r.field_type),
                                   attrs, vals) IN
        /\ attrs' = out.attrs
        /\ vals' = out.rows
        /\ last' = [op |-> "remove_attribute", pk |-> pk, err |-> out.err,
                    args |-> NoArgs, saved |-> last.saved]
    /\ UNCHANGED <<ents, now, nextVid, schemaVars, writers>>

ClassInit ==
    /\ schemas = ClassSchemas
    /\ links \in SUBSET (Classes \X {1, 2})
    /\ nextSid = 3
    /\ schema_cache = {}
    /\ writers = <<>>
    /\ ents = ClassEntities
    /\ \E s1 \in SUBSET ClassAttrs(1), s2 \in SUBSET ClassAttrs(2) :
        /\ Cardinality(s1) <= 1
        /\ Cardinality(s2) <= 1
        /\ attrs = s1 \cup s2
    /\ vals \in {v \in SUBSET ClassValues :
                    \A r \in v : \E a \in attrs : a.id = r.attribute}
    /\ now = 1
    /\ nextVid = 2
    /\ last = [op |-> "init", pk |-> 0, err |-> "", args |-> NoArgs,
               saved |-> Persisted("c1")]

ClassNext ==
    \/ \E c \in Classes, pk \in 1..2 : SchemasAdd(c, pk)
    \/ \E c \in Classes, pk \in 1..2 : SchemasRemove(c, pk)
    \/ \E c \in Classes : ClassSave(c)
    \/ \E c \in Classes, args \in MigrationArgs : MakeMigrations(c, args)
    \/ \E e \in ClassEntities, pk \in 1..2 : AddAttribute(e, pk)
    \/ \E e \in ClassEntities, pk \in 1..2 : RemoveAttribute(e, pk)

ClassSpec == ClassInit /\ [][ClassNext]_vars

(***************************************************************************)
(* Claims about the migration.                                             *)
(***************************************************************************)
\* C18: a migration with one removed schema name, and nothing added or
\* updated, succeeds and marks deleted the attribute with that code on
\* every entity of the class; the value rows and every other attribute are
\* unchanged.
C18_RemovedTombstones ==
    [][(last'.op = "make_migrations"
            /\ last'.args.added = {} /\ last'.args.updated = {}
            /\ Cardinality(last'.args.removed) = 1) =>
        /\ last'.err = ""
        /\ attrs' = {IF a.code \in last'.args.removed /\ a.entity \in ents
                     THEN [a EXCEPT !.deleted = TRUE] ELSE a : a \in attrs}
        /\ vals' = vals]_vars

\* C19: in the state a migration left, applying the migration again with
\* the same arguments completes without error and changes no attribute
\* and no value.
C19_MigrateIdempotent ==
    (last.op = "make_migrations" /\ last.args # NoArgs) =>
        LET again == make_migrations("c1", last.args.added, last.args.removed,
                        last.args.updated, links, schemas, ents, attrs, vals)
        IN  /\ again.err = ""
            /\ again.attrs = attrs
            /\ again.rows = vals

\* C20: a save of the class after its schema set changed migrates every
\* entity of the class by the diff of the set as of the previous save and
\* the set now: a live attribute for each added name, the new version bound
\* to the live attributes of each updated name, no live attribute left for
\* a removed name.
C20_SaveMigrates ==
    [][last'.op = "class_save" =>
        LET old == last.saved
            new == last'.saved
            olds == {r.name : r \in old}
            news == {r.name : r \in new}
        IN
        /\ last'.err = ""
        /\ \A e \in ents :
            /\ \A r \in new :
                r.name \notin olds =>
                    \E a \in attrs' :
                        a.entity = e /\ a.code = r.name /\ ~a.deleted
            /\ \A r \in new :
                (r.name \in olds /\ r \notin old) =>
                    \A a \in attrs' :
                        (a.entity = e /\ a.code = r.name /\ ~a.deleted) =>
                            a.schema.version = r.version
            /\ \A r \in old :
                r.name \notin news =>
                    \A a \in attrs' :
                        (a.entity = e /\ a.code = r.name) => a.deleted]_vars

(***************************************************************************)
(* Creating an entity of a class: datacore/models/models.py                *)
(***************************************************************************)
\* AbstractEntityClassModel.create_entity: self.entities.model is read
\* first, and the class has no attribute entities.  Past it, the entity row
\* is created and the loop calls entity.addadd_attribute, a method no
\* entity has, on the first element of get_attributes_schemas(), which is
\* never empty (one queryset per ancestor).
create_entity(c, es, all) ==
    IF ~class_entities_defined
    THEN [err |-> "AttributeError", ents |-> es, attrs |-> all]
    ELSE [err |-> "AttributeError",
          ents |-> es \cup {1 + Cardinality(es)}, attrs |-> all]

\* cls.create_entity(title=...)
CreateEntity(c) ==
    /\ LET out == create_entity(c, ents, attrs) IN
        /\ ents' = out.ents
        /\ attrs' = out.attrs
        /\ last' = [op |-> "create_entity", pk |-> c, err |-> out.err]
    /\ UNCHANGED <<vals, now, nextVid, schemaVars, writers>>

CreateInit ==
    /\ schemas = DictSchemas
    /\ links \in SUBSET (TreeClasses \X {1, 2})
    /\ nextSid = 3
    /\ schema_cache = {}
    /\ writers = <<>>
    /\ StoreIdle
    /\ last = [op |-> "init", pk |-> "", err |-> ""]

CreateNext == \E c \in TreeClasses : CreateEntity(c)

CreateSpec == CreateInit /\ [][CreateNext]_vars

\* C21: create_entity of a class succeeds and adds one entity that holds
\* exactly one live attribute per schema linked to the class or to one of
\* its ancestors, bound to that schema, and no other attribute.
C21_CreateMaterializes ==
    [][last'.op = "create_entity" =>
        LET line == {get_ancestors(last'.pk)[i] :
                        i \in 1..Len(get_ancestors(last'.pk))}
            effective == {r \in schemas : \E c \in line : <<c, r.id>> \in links}
        IN
        /\ last'.err = ""
        /\ \E e \in ents' \ ents :
            /\ ents' = ents \cup {e}
            /\ \A r \in effective :
                Cardinality({a \in attrs' : a.entity = e /\ a.code = r.name
                                /\ ~a.deleted}) = 1
            /\ \A a \in attrs' :
                a.entity = e =>
                    /\ ~a.deleted
                    /\ \E r \in effective :
                        /\ a.code = r.name
                        /\ a.schema = Sch(r.name, r.version, r.field_type)]_vars

(***************************************************************************)
(* Two concurrent callers of set_value: datacore/models/attributes.py      *)
(***************************************************************************)
Writers == {1, 2}

\* A caller that has not called yet.
WriterIdle == [pc |-> "idle", attr |-> 0, obj |-> <<>>, err |-> ""]

\* The first query of the single branch of set_value: obj = values_qs.first()
\* with the new value assigned, or a new unsaved object.  It is the only
\* read before the write; no query looks for the value under other entities.
WriterFirst(w, aid, v, tb) ==
    /\ writers[w].pc = "idle"
    /\ aid \in {a.id : a \in attrs}
    /\ LET a == AttrRow(aid)
           qs == {r \in vals : r.entity = a.entity}
           obj == IF qs # {} THEN [First(qs, tb) EXCEPT !.value = v]
                  ELSE [id |-> 0, entity |-> a.entity, attribute |-> aid,
                        value |-> v, timestamp |-> 0]
       IN writers' = [writers EXCEPT ![w] =
                        [pc |-> "save", attr |-> aid, obj |-> <<obj>>, err |-> ""]]
    /\ last' = [op |-> "first", attr |-> aid, err |-> "", res |-> <<>>]
    /\ UNCHANGED <<storeVars, schemaVars>>

\* The write of set_value: obj.save().
WriterSave(w) ==
    /\ writers[w].pc = "save"
    /\ nextVid <= MaxVid
    /\ LET out == value_save(writers[w].obj[1], FALSE, attrs, vals, nextVid, now) IN
        /\ vals' = out.rows
        /\ nextVid' = out.vid
        /\ writers' = [writers EXCEPT ![w].pc = "done", ![w].err = out.err]
        /\ last' = [op |-> "set_value", attr |-> writers[w].attr,
                    err |-> out.err, res |-> <<>>]
    /\ UNCHANGED <<attrs, ents, now, schemaVars>>

RaceInit ==
    /\ schemas = {}
    /\ links = {}
    /\ nextSid = 1
    /\ schema_cache = {}
    /\ writers = [w \in Writers |-> WriterIdle]
    /\ ents = 1..MaxOwners
    /\ attrs = {Attr(e, e, "ssn", Sch("ssn", <<1, 0>>, FtInteger), TRUE, FALSE, 0) :
                    e \in 1..MaxOwners}
    /\ vals = {}
    /\ now = 1
    /\ nextVid = 1
    /\ last = [op |-> "init", attr |-> 0, err |-> "", res |-> <<>>]

RaceNext ==
    \/ \E w \in Writers, aid \in 1..MaxOwners, v \in UniqueValues, tb \in TieBreaks :
            WriterFirst(w, aid, v, tb)
    \/ \E w \in Writers : WriterSave(w)

RaceSpec == RaceInit /\ [][RaceNext]_vars

\* C24: when two callers write the same value to the globally unique code
\* of two different entities, in every interleaving of their reads and
\* writes at most one write succeeds, the other fails with the not-unique
\* error, and no two rows of the code hold the same value.
C24_ConcurrentGlobalUnique ==
    (/\ \A w \in Writers : writers[w].pc = "done"
     /\ writers[1].obj[1].value = writers[2].obj[1].value
     /\ AttrRow(writers[1].attr).entity # AttrRow(writers[2].attr).entity) =>
        /\ \E w \in Writers : writers[w].err = NotUnique
        /\ Cardinality({r \in vals : r.value = writers[1].obj[1].value}) <= 1

(***************************************************************************)
(* Two concurrent callers of SchemaModel.save: datacore/models/schemas.py  *)
(***************************************************************************)
\* The instances the callers hold: unsaved, or row 1 loaded and edited.
SaveInstances ==
    {inst \in Instances :
        /\ inst.pk \in {0, 1}
        /\ inst.field_type = FtString
        /\ ~inst.is_multiple
        /\ inst.title = (IF inst.name = "a" THEN "A" ELSE "B")}

\* SchemaModel.save up to the write: the field type test, then clone() for
\* a linked row (the lookup of model_to_dict, the scan of get_next_version)
\* or full_clean(), whose validate_unique is a scan of the table.  The
\* instance to write is the clone for a linked row.
save_scan(inst, rows) ==
    IF get_field_name(inst.field_type) = ""
    THEN [err |-> "ValueError", inst |-> inst]
    ELSE IF inst.pk # 0 /\ classes_exists(inst.pk)
    THEN IF ~model_to_dict_defined
         THEN [err |-> "AttributeError", inst |-> inst]
         ELSE LET nv == get_next_version(inst, rows)
                  new == [inst EXCEPT !.pk = 0, !.version = nv.version] IN
              IF nv.err # "" THEN [err |-> nv.err, inst |-> inst]
              ELSE IF ~validate_unique(new, rows)
              THEN [err |-> "ValidationError", inst |-> new]
              ELSE [err |-> "", inst |-> new]
    ELSE IF ~validate_unique(inst, rows)
    THEN [err |-> "ValidationError", inst |-> inst]
    ELSE [err |-> "", inst |-> inst]

\* Model.save: the INSERT or UPDATE, which the table rejects with
\* IntegrityError when it breaks unique=True of name or title or the
\* unique_together of (name, version).
model_save(inst, rows, sid) ==
    IF ~validate_unique(inst, rows)
    THEN [err |-> "IntegrityError", rows |-> rows, sid |-> sid]
    ELSE IF inst.pk = 0
    THEN [err |-> "", rows |-> rows \cup {RowOf(inst, sid)}, sid |-> sid + 1]
    ELSE [err |-> "",
          rows |-> {r \in rows : r.id # inst.pk} \cup {RowOf(inst, inst.pk)},
          sid |-> sid]

\* A caller that has not called yet.
SaverIdle == [pc |-> "idle", inst |-> <<>>, err |-> ""]

\* The reads of a save() call.
SaverScan(w, inst) ==
    /\ writers[w].pc = "idle"
    /\ Holdable(inst)
    /\ LET out == save_scan(inst, schemas) IN
        /\ writers' = [writers EXCEPT ![w] =
                [pc |-> IF out.err = "" THEN "write" ELSE "done",
                 inst |-> <<out.inst>>, err |-> out.err]]
        /\ last' = [op |-> "scan", pk |-> inst.pk, err |-> out.err]
    /\ UNCHANGED <<schemas, links, nextSid, schema_cache, storeVars>>

\* The write of a save() call.
SaverWrite(w) ==
    /\ writers[w].pc = "write"
    /\ nextSid <= MaxSid
    /\ LET inst == writers[w].inst[1]
           out == model_save(inst, schemas, nextSid) IN
        /\ schemas' = out.rows
        /\ nextSid' = out.sid
        /\ writers' = [writers EXCEPT ![w].pc = "done", ![w].err = out.err]
        /\ last' = [op |-> "save", pk |-> inst.pk, err |-> out.err]
    /\ UNCHANGED <<links, schema_cache, storeVars>>

SaversInit ==
    /\ schemas \in {{}, {RowOf([pk |-> 1, name |-> "a", title |-> "A",
                               version |-> <<1, 0>>, field_type |-> FtString,
                               is_multiple |-> FALSE], 1)}}
    /\ links \in {l \in SUBSET (Classes \X {1}) : l # {} => schemas # {}}
    /\ nextSid = 1 + Cardinality(schemas)
    /\ schema_cache = {}
    /\ writers = [w \in Writers |-> SaverIdle]
    /\ attrs = {}
    /\ vals = {}
    /\ ents = {}
    /\ now = 0
    /\ nextVid = 1
    /\ last = [op |-> "init", pk |-> 0, err |-> ""]

SaversNext ==
    \/ \E w \in Writers, inst \in SaveInstances : SaverScan(w, inst)
    \/ \E w \in Writers : SaverWrite(w)

SaversSpec == SaversInit /\ [][SaversNext]_vars

\* C25: no two schema rows share a (name, version), in every interleaving
\* of the scans and writes of two concurrent saves, and a save that does
\* not succeed ends with the ValidationError of the conflict, never with
\* another exception.
C25_VersionsUniqueUnderRace ==
    /\ \A r, q \in schemas :
        (r.name = q.name /\ r.version = q.version) => r = q
    /\ \A w \in Writers :
        writers[w].pc = "done" => writers[w].err \in {"", "ValidationError"}

(***************************************************************************)
(* Traversals over tombstoned links, and the subtree:                      *)
(* datacore/models/entity.py                                               *)
(***************************************************************************)
MaxTrav == 4

\* The relation-attribute tables over the first MaxTrav entities in which
\* any of the first MaxTrav attributes may have been tombstoned.
TravGraphs ==
    {{[a EXCEPT !.deleted = (a.id \in dead)] : a \in g} :
        g \in {x \in Graphs : \A a \in x :
                    a.entity <= MaxTrav /\ a.destination <= MaxTrav},
        dead \in SUBSET (1..MaxTrav)}

\* dest.entity_class.uuid of an entity.
entity_type(e) == IF e % 2 = 1 THEN "t1" ELSE "t2"

\* The values of the optional filters; the empty set is None.
CodeFilters == {{}, {"m"}}
TypeFilters == {{}, {"t1"}}

\* The loop over the relation attributes of get_graph_subtree: the
\* destinations kept for the entry of the current entity, in order.
RECURSIVE subtree_links(_, _, _, _)
subtree_links(rel, visited, link_codes, entity_types) ==
    IF rel = <<>> THEN <<>>
    ELSE LET attr == Head(rel)
             dest == attr.destination
             skip == \/ (link_codes # {} /\ attr.code \notin link_codes)
                     \/ dest = 0
                     \/ dest \in visited
                     \/ (entity_types # {} /\ entity_type(dest) \notin entity_types)
         IN (IF skip THEN <<>> ELSE <<dest>>)
                \o subtree_links(Tail(rel), visited, link_codes, entity_types)

\* The (entity, depth) items pushed for a list of kept destinations.
RECURSIVE subtree_push(_, _)
subtree_push(dests, d) ==
    IF dests = <<>> THEN <<>>
    ELSE <<<<Head(dests), d + 1>>>> \o subtree_push(Tail(dests), d)

\* The while loop of get_graph_subtree; graph is the set of entries
\* <<key, links>>.
RECURSIVE subtree_loop(_, _, _, _, _, _, _)
subtree_loop(stack, visited, graph, depth, link_codes, entity_types, all) ==
    IF stack = <<>> THEN graph
    ELSE LET current == stack[Len(stack)][1]
             d == stack[Len(stack)][2]
             rest == SubSeq(stack, 1, Len(stack) - 1)
         IN
         IF current \in visited \/ d > depth
         THEN subtree_loop(rest, visited, graph, depth, link_codes,
                           entity_types, all)
         ELSE LET seen == visited \cup {current}
                  lnks == subtree_links(relation_attributes(current, all),
                                        seen, link_codes, entity_types)
              IN subtree_loop(rest \o subtree_push(lnks, d), seen,
                              graph \cup {<<current, lnks>>}, depth,
                              link_codes, entity_types, all)

\* AbstractEntityModel.get_graph_subtree(depth, link_codes, entity_types)
get_graph_subtree(self, depth, link_codes, entity_types, all) ==
    subtree_loop(<<<<self, 0>>>>, {}, {}, depth, link_codes, entity_types, all)

\* e.get_graph_subtree(depth=d, link_codes, entity_types) for the entity and
\* depth drawn in last.
GetGraphSubtree(link_codes, entity_types) ==
    /\ last' = [last EXCEPT
                    !.op = "get_graph_subtree",
                    !.mode = "",
                    !.conn = FALSE,
                    !.none = FALSE,
                    !.paths = <<>>,
                    !.link_codes = link_codes,
                    !.entity_types = entity_types,
                    !.graph = get_graph_subtree(last.self, last.max_depth,
                                    link_codes, entity_types, attrs)]
    /\ UNCHANGED <<storeVars, schemaVars, writers>>

TravInit ==
    /\ SchemaIdle
    /\ ents = 1..MaxTrav
    /\ attrs \in TravGraphs
    /\ vals = {}
    /\ now = 0
    /\ nextVid = 1
    /\ \E t \in 1..MaxTrav, d \in 1..MaxDepth :
        last = [op |-> "init", self |-> 1, target |-> t, max_depth |-> d,
                mode |-> "", conn |-> FALSE, none |-> FALSE, paths |-> <<>>,
                link_codes |-> {}, entity_types |-> {}, graph |-> {}]

\* One call on the graph and the arguments drawn at the start.
TravConnected == last.op = "init" /\ IsConnectedTo
TravFindPath(mode) == last.op = "init" /\ FindLinkPathTo(mode)
TravSubtree(link_codes, entity_types) ==
    last.op = "init" /\ GetGraphSubtree(link_codes, entity_types)

TravNext ==
    \/ TravConnected
    \/ \E mode \in Modes : TravFindPath(mode)
    \/ \E lc \in CodeFilters, et \in TypeFilters : TravSubtree(lc, et)

TravSpec == TravInit /\ [][TravNext]_vars

(***************************************************************************)
(* Claims about tombstoned links and the subtree.                          *)
(***************************************************************************)
\* The entities reachable from a by at most d live edges whose code is in
\* codes and whose destination type is in types (the empty set: any).
RECURSIVE ReachWithin(_, _, _, _)
ReachWithin(a, d, codes, types) ==
    {a} \cup
    (IF d = 0 THEN {}
     ELSE UNION {ReachWithin(l.destination, d - 1, codes, types) :
            l \in {x \in attrs :
                    /\ x.entity = a /\ x.is_relation /\ ~x.deleted
                    /\ x.destination # 0
                    /\ (codes = {} \/ x.code \in codes)
                    /\ (types = {} \/ entity_type(x.destination) \in types)}})

\* C26: when no path of live relation attributes leads from the entity to
\* the target, is_connected_to is false, find_link_path_to finds no path
\* and the target is no key of the subtree.
C26_TombstonesNotTraversed ==
    (last.target \notin ReachWithin(last.self, MaxTrav, {}, {})) =>
        /\ last.op = "is_connected_to" => ~last.conn
        /\ last.op = "find_link_path_to" =>
            (IF last.mode = "first" THEN last.none ELSE last.paths = <<>>)
        /\ last.op = "get_graph_subtree" =>
            last.target \notin {x[1] : x \in last.graph}

\* C27: without tombstoned links, the keys of get_graph_subtree are exactly
\* the entities within depth edges of the root over the edges the filters
\* allow, and no key appears twice.
C27_SubtreeExact ==
    (last.op = "get_graph_subtree" /\ \A l \in attrs : ~l.deleted) =>
        /\ {x[1] : x \in last.graph} =
                ReachWithin(last.self, last.max_depth, last.link_codes,
                            last.entity_types)
        /\ \A x, y \in last.graph : x[1] = y[1] => x = y

(***************************************************************************)
(* Further claims about values (ValuesSpec).                               *)
(***************************************************************************)
\* C28: a set_value call with a single value on an attribute that is not a
\* time series succeeds and leaves the attribute with exactly one Value
\* row, every such attribute with at most one, and the value read for
\* every other attribute as it was.
C28_OneRowPerAttribute ==
    [][(last'.op = "set_value" /\ ~AttrRow(last'.attr).is_timeseries) =>
        /\ last'.err = ""
        /\ Cardinality({r \in vals' : r.attribute = last'.attr}) = 1
        /\ \A a \in attrs :
            ~a.is_timeseries =>
                Cardinality({r \in vals' : r.attribute = a.id}) <= 1
        /\ \A a \in attrs, tb \in TieBreaks :
            a.id # last'.attr =>
                get_value(a, vals', tb) = get_value(a, vals, tb)]_vars

OnlyTombstoned(code, all) ==
    {e \in ents :
        /\ \E a \in all : a.entity = e /\ a.code = code
        /\ \A a \in all : (a.entity = e /\ a.code = code) => a.deleted}

\* C30: after every step each (entity, code) has at most one live
\* attribute, and add_attribute of a schema whose name is the code of a
\* tombstoned attribute succeeds and leaves one of these entities with
\* exactly one live attribute of the code.
C30_LiveCodeUnique ==
    [][/\ \A a, b \in attrs' :
            (a.entity = b.entity /\ a.code = b.code /\ ~a.deleted /\ ~b.deleted)
                => a = b
       /\ (/\ last'.op = "add_attribute"
           /\ OnlyTombstoned(SchemaRow(last'.pk).name, attrs) # {}) =>
            /\ last'.err = ""
            /\ \E e \in OnlyTombstoned(SchemaRow(last'.pk).name, attrs) :
                Cardinality({a \in attrs' : a.entity = e /\ ~a.deleted
                                /\ a.code = SchemaRow(last'.pk).name}) = 1]_vars

=============================================================================
